---- MODULE Spec2Model ----
(***************************************************************************)
(* Workflow core of the PACS repository (crates/pacs-workflow): the study  *)
(* state machine, the worklist manager, the routing engine, the critical   *)
(* value processor and the workflow engine that composes them.             *)
(*                                                                         *)
(* Every component is a record with the fields of its Rust struct; every   *)
(* method is an operator from the component (and the call's arguments) to  *)
(* the component after the call and the call's result.  Each action of a   *)
(* specification is one public call; `last` records that call, its         *)
(* arguments, what it returned and what the claims need of the state it    *)
(* started from.                                                           *)
(***************************************************************************)
EXTENDS Integers, Sequences, FiniteSets, TLC

VARIABLES
    study_status,        \* status of each study, as persisted by the caller of the state machine
    worklist_manager,    \* WorkListManager {work_items, radiologist_worklists, study_work_items}
    routing_engine,      \* RoutingEngine {rules, radiologists, workload_map}
    critical_processor,  \* CriticalValueProcessor {events, notifications, policies, notification_queue}
    issued,              \* number of Uuid::new_v4() identifiers handed out so far
    clock,               \* chrono::Utc::now()
    backlog,             \* number of work items the manager held when the run began
    sent,                \* the notification sender's log: how often each record was handed to it
    in_flight,           \* the async call suspended at an await, holding its borrow of the engine: None or Some(call)
    calls,               \* number of state-changing calls made in the run
    last                 \* the latest call: operation, arguments, result

vars == <<study_status, worklist_manager, routing_engine, critical_processor, issued, clock, backlog, sent, in_flight, calls, last>>

\* Option<T>: None is the empty sequence, Some(x) the sequence holding x
None == <<>>
Some(x) == <<x>>
IsSome(o) == o # <<>>
Unwrap(o) == o[1]

\* the unit value ()
Unit == <<>>

(***************************************************************************)
(* Option / Result helpers                                                 *)
(***************************************************************************)
Ok(v) == [ok |-> TRUE, value |-> v]
Err(e) == [ok |-> FALSE, error |-> e]

\* Vec::retain(|&id| id != x)
retain_ne(s, x) == SelectSeq(s, LAMBDA y : y # x)

\* number of occurrences of x in the sequence s
Count(s, x) == Cardinality({i \in DOMAIN s : s[i] = x})

Range(s) == {s[i] : i \in DOMAIN s}

(***************************************************************************)
(* pacs-core: StudyStatus; state_machine.rs: StudyEvent, StudyStateMachine *)
(***************************************************************************)
StudyStatus == {"Scheduled", "InProgress", "Completed", "Preliminary", "Final", "Canceled"}

StudyEvent == {"Scheduled", "Started", "Completed", "PreliminaryReport", "FinalReport", "Canceled"}

\* the table with a revision entry that takes a Final study back to
\* InProgress (an extra row that closes a cycle)
transitions_revise_final ==
    ( <<"Scheduled", "Started">> :> "InProgress" ) @@
    ( <<"InProgress", "Completed">> :> "Completed" ) @@
    ( <<"Completed", "PreliminaryReport">> :> "Preliminary" ) @@
    ( <<"Preliminary", "FinalReport">> :> "Final" ) @@
    ( <<"Scheduled", "Canceled">> :> "Canceled" ) @@
    ( <<"InProgress", "Canceled">> :> "Canceled" ) @@
    ( <<"Final", "Started">> :> "InProgress" )

\* the table with Preliminary+FinalReport leading back to Completed (a wrong target)
transitions_wrong_target ==
    ( <<"Scheduled", "Started">> :> "InProgress" ) @@
    ( <<"InProgress", "Completed">> :> "Completed" ) @@
    ( <<"Completed", "PreliminaryReport">> :> "Preliminary" ) @@
    ( <<"Preliminary", "FinalReport">> :> "Completed" ) @@
    ( <<"Scheduled", "Canceled">> :> "Canceled" ) @@
    ( <<"InProgress", "Canceled">> :> "Canceled" )

\* the table with a re-scheduling entry out of Canceled (an extra row)
transitions_reopen_canceled ==
    ( <<"Scheduled", "Started">> :> "InProgress" ) @@
    ( <<"InProgress", "Completed">> :> "Completed" ) @@
    ( <<"Completed", "PreliminaryReport">> :> "Preliminary" ) @@
    ( <<"Preliminary", "FinalReport">> :> "Final" ) @@
    ( <<"Scheduled", "Canceled">> :> "Canceled" ) @@
    ( <<"InProgress", "Canceled">> :> "Canceled" ) @@
    ( <<"Canceled", "Scheduled">> :> "Scheduled" )

\* StudyStateMachine::new : the HashMap<(StudyStatus, StudyEvent), StudyStatus>
transitions ==
    ( <<"Scheduled", "Started">> :> "InProgress" ) @@
    ( <<"InProgress", "Completed">> :> "Completed" ) @@
    ( <<"Completed", "PreliminaryReport">> :> "Preliminary" ) @@
    ( <<"Preliminary", "FinalReport">> :> "Final" ) @@
    ( <<"Scheduled", "Canceled">> :> "Canceled" ) @@
    ( <<"InProgress", "Canceled">> :> "Canceled" )

can_transition(from, event) == <<from, event>> \in DOMAIN transitions

transition(from, event) ==
    IF <<from, event>> \in DOMAIN transitions
    THEN Ok(transitions[<<from, event>>])
    ELSE Err("InvalidStateTransition")

(***************************************************************************)
(* worklist.rs: WorkItem, WorkListFilter, WorkListManager                  *)
(***************************************************************************)
WorkItemStatus == {"Pending", "InProgress", "Completed", "Rejected", "OnHold"}

WorkItemPriority == {"Critical", "High", "Normal", "Low"}

\* #[derive(PartialOrd, Ord)] on WorkItemPriority: variants compare by their
\* position in the declaration
PriorityOrd(p) ==
    CASE p = "Critical" -> 0
      [] p = "High" -> 1
      [] p = "Normal" -> 2
      [] p = "Low" -> 3

\* Ord::cmp on two integers
cmp(x, y) == IF x < y THEN "Less" ELSE IF x = y THEN "Equal" ELSE "Greater"

\* WorkListFilter::default().limit
DefaultLimit == 50

\* WorkListFilter; modality, date_from, date_to and tags are never read by
\* query_worklist and are left out
WorkListFilter(radiologist_id, status, priority, limit, offset) ==
    [radiologist_id |-> radiologist_id, status |-> status, priority |-> priority,
     limit |-> limit, offset |-> offset]

DefaultFilter == WorkListFilter(None, None, None, Some(DefaultLimit), Some(0))

\* HashMap::entry(key).or_insert_with(Vec::new).push(v)
entry_push(map, key, v) ==
    IF key \in DOMAIN map THEN [map EXCEPT ![key] = Append(@, v)]
    ELSE map @@ (key :> <<v>>)

\* HashMap::remove(key)
map_remove(map, key) == [k \in DOMAIN map \ {key} |-> map[k]]

\* WorkListManager::create_work_item; id is the fresh Uuid::new_v4(), now is
\* chrono::Utc::now().  estimated_duration_minutes and tags are stored and
\* never read by the operations modelled here.
create_work_item(self, id, study_id, radiologist_id, priority, due_at, now) ==
    LET work_item == [id |-> id, study_id |-> study_id, radiologist_id |-> radiologist_id,
                      status |-> "Pending", priority |-> priority,
                      assigned_at |-> now, due_at |-> due_at]
    IN  [self |-> [work_items |-> (id :> work_item) @@ self.work_items,
                   radiologist_worklists |->
                       IF IsSome(radiologist_id)
                       THEN entry_push(self.radiologist_worklists, Unwrap(radiologist_id), id)
                       ELSE self.radiologist_worklists,
                   study_work_items |-> entry_push(self.study_work_items, study_id, id)],
         result |-> Ok(work_item)]

\* WorkListManager::get_work_item
get_work_item(self, work_item_id) ==
    IF work_item_id \in DOMAIN self.work_items THEN Some(self.work_items[work_item_id]) ELSE None

\* update_work_item_status that archives a closed item: a Completed or
\* Rejected item is also taken out of its study's index
update_work_item_status_archives(self, work_item_id, status) ==
    IF work_item_id \in DOMAIN self.work_items
    THEN LET radiologist_id == self.work_items[work_item_id].radiologist_id
             study_id == self.work_items[work_item_id].study_id
         IN  [self |-> [self EXCEPT
                  !.work_items[work_item_id].status = status,
                  !.radiologist_worklists =
                      IF /\ status \in {"Completed", "Rejected"}
                         /\ IsSome(radiologist_id)
                         /\ Unwrap(radiologist_id) \in DOMAIN self.radiologist_worklists
                      THEN [@ EXCEPT ![Unwrap(radiologist_id)] = retain_ne(@, work_item_id)]
                      ELSE @,
                  !.study_work_items =
                      IF status \in {"Completed", "Rejected"} /\ study_id \in DOMAIN @
                      THEN [@ EXCEPT ![study_id] = retain_ne(@, work_item_id)]
                      ELSE @],
              result |-> Ok(Unit)]
    ELSE [self |-> self, result |-> Err("NotFound")]

\* WorkListManager::update_work_item_status
update_work_item_status(self, work_item_id, status) ==
    IF work_item_id \in DOMAIN self.work_items
    THEN LET radiologist_id == self.work_items[work_item_id].radiologist_id
         IN  [self |-> [self EXCEPT
                  !.work_items[work_item_id].status = status,
                  !.radiologist_worklists =
                      IF /\ status \in {"Completed", "Rejected"}
                         /\ IsSome(radiologist_id)
                         /\ Unwrap(radiologist_id) \in DOMAIN self.radiologist_worklists
                      THEN [@ EXCEPT ![Unwrap(radiologist_id)] = retain_ne(@, work_item_id)]
                      ELSE @],
              result |-> Ok(Unit)]
    ELSE [self |-> self, result |-> Err("NotFound")]

\* assign_work_item that moves the item between the reviewers' indexes but
\* leaves the item's own radiologist_id as it was
assign_work_item_keeps_owner(self, work_item_id, radiologist_id, now) ==
    IF work_item_id \in DOMAIN self.work_items
    THEN LET old_radiologist == self.work_items[work_item_id].radiologist_id
             removed == IF IsSome(old_radiologist) /\ Unwrap(old_radiologist) \in DOMAIN self.radiologist_worklists
                        THEN [self.radiologist_worklists EXCEPT
                                  ![Unwrap(old_radiologist)] = retain_ne(@, work_item_id)]
                        ELSE self.radiologist_worklists
         IN  [self |-> [self EXCEPT
                  !.work_items[work_item_id].assigned_at = now,
                  !.radiologist_worklists = entry_push(removed, radiologist_id, work_item_id)],
              result |-> Ok(Unit)]
    ELSE [self |-> self, result |-> Err("NotFound")]

\* assign_work_item that pushes the item onto the new reviewer's index but
\* does not take it out of the old reviewer's
assign_work_item_leaves_old_index(self, work_item_id, radiologist_id, now) ==
    IF work_item_id \in DOMAIN self.work_items
    THEN [self |-> [self EXCEPT
              !.work_items[work_item_id].radiologist_id = Some(radiologist_id),
              !.work_items[work_item_id].assigned_at = now,
              !.radiologist_worklists = entry_push(self.radiologist_worklists, radiologist_id, work_item_id)],
          result |-> Ok(Unit)]
    ELSE [self |-> self, result |-> Err("NotFound")]

\* WorkListManager::assign_work_item
assign_work_item(self, work_item_id, radiologist_id, now) ==
    IF work_item_id \in DOMAIN self.work_items
    THEN LET old_radiologist == self.work_items[work_item_id].radiologist_id
             removed == IF IsSome(old_radiologist) /\ Unwrap(old_radiologist) \in DOMAIN self.radiologist_worklists
                        THEN [self.radiologist_worklists EXCEPT
                                  ![Unwrap(old_radiologist)] = retain_ne(@, work_item_id)]
                        ELSE self.radiologist_worklists
         IN  [self |-> [self EXCEPT
                  !.work_items[work_item_id].radiologist_id = Some(radiologist_id),
                  !.work_items[work_item_id].assigned_at = now,
                  !.radiologist_worklists = entry_push(removed, radiologist_id, work_item_id)],
              result |-> Ok(Unit)]
    ELSE [self |-> self, result |-> Err("NotFound")]

\* the comparator of query_worklist's sort_by: b.priority.cmp(&a.priority),
\* then a.assigned_at.cmp(&b.assigned_at)
work_item_cmp(a, b) ==
    LET by_priority == cmp(PriorityOrd(b.priority), PriorityOrd(a.priority))
    IN  IF by_priority = "Equal" THEN cmp(a.assigned_at, b.assigned_at) ELSE by_priority

\* slice::sort_by, a stable sort: the element at index i of s ends behind the
\* elements that compare Less than it and behind the elements before it in s
\* that compare Equal to it
sort_by(s) ==
    LET n == Len(s)
        before(j, i) ==
            LET c == work_item_cmp(s[j], s[i])
            IN  c = "Less" \/ (j < i /\ c = "Equal")
        \* (@@ <<>> has TLC tabulate the function once)
        pos == [i \in 1 .. n |-> Cardinality({j \in 1 .. n : before(j, i)}) + 1] @@ <<>>
    IN  [p \in 1 .. n |-> s[CHOOSE i \in 1 .. n : pos[i] = p]]

Min(a, b) == IF a < b THEN a ELSE b

\* WorkListManager::query_worklist; values is self.work_items.values() in the
\* HashMap's iteration order (a sequence of the keys, each once)
query_worklist(self, filter, values) ==
    LET all == [i \in DOMAIN values |-> self.work_items[values[i]]]
        keep(item) ==
            /\ IsSome(filter.radiologist_id) => item.radiologist_id = filter.radiologist_id
            /\ IsSome(filter.status) => item.status \in Unwrap(filter.status)
            /\ IsSome(filter.priority) => item.priority \in Unwrap(filter.priority)
        items == sort_by(SelectSeq(all, keep))
        offset == IF IsSome(filter.offset) THEN Unwrap(filter.offset) ELSE 0
        limit == IF IsSome(filter.limit) THEN Unwrap(filter.limit) ELSE 50
        total_items == Len(items)
        start == Min(offset, total_items)
        end == Min(start + limit, total_items)
    IN  SubSeq(items, start + 1, end)

\* WorkListManager::get_radiologist_worklist
get_radiologist_worklist(self, radiologist_id, values) ==
    query_worklist(self, [DefaultFilter EXCEPT !.radiologist_id = Some(radiologist_id)], values)

\* WorkListManager::get_study_work_items
get_study_work_items(self, study_id) ==
    IF study_id \in DOMAIN self.study_work_items
    THEN LET ids == SelectSeq(self.study_work_items[study_id], LAMBDA id : id \in DOMAIN self.work_items)
         IN  [i \in DOMAIN ids |-> self.work_items[ids[i]]]
    ELSE <<>>

\* WorkListManager::get_worklist_stats; values is work_items.values() in the
\* map's iteration order and now is chrono::Utc::now()
\* (average_processing_time_minutes is left out with estimated_duration_minutes)
get_worklist_stats(self, radiologist_id, values, now) ==
    LET items == query_worklist(self, [DefaultFilter EXCEPT !.radiologist_id = radiologist_id], values)
        with_status(status) == Cardinality({i \in DOMAIN items : items[i].status = status})
    IN  [total_items |-> Len(items),
         pending_items |-> with_status("Pending"),
         in_progress_items |-> with_status("InProgress"),
         completed_items |-> with_status("Completed"),
         overdue_items |->
             Cardinality({i \in DOMAIN items :
                             /\ IsSome(items[i].due_at)
                             /\ now > Unwrap(items[i].due_at)
                             /\ items[i].status # "Completed"}),
         workload_by_priority |->
             [priority \in {items[i].priority : i \in DOMAIN items} |->
                 Cardinality({i \in DOMAIN items : items[i].priority = priority})]]

\* remove_work_item that deletes the item from the item table only
remove_work_item_keeps_indexes(self, work_item_id) ==
    IF work_item_id \in DOMAIN self.work_items
    THEN [self |-> [self EXCEPT !.work_items = map_remove(self.work_items, work_item_id)],
          result |-> Ok(Unit)]
    ELSE [self |-> self, result |-> Err("NotFound")]

\* WorkListManager::remove_work_item
remove_work_item(self, work_item_id) ==
    IF work_item_id \in DOMAIN self.work_items
    THEN LET work_item == self.work_items[work_item_id]
             rid == work_item.radiologist_id
         IN  [self |-> [work_items |-> map_remove(self.work_items, work_item_id),
                        radiologist_worklists |->
                            IF IsSome(rid) /\ Unwrap(rid) \in DOMAIN self.radiologist_worklists
                            THEN [self.radiologist_worklists EXCEPT ![Unwrap(rid)] = retain_ne(@, work_item_id)]
                            ELSE self.radiologist_worklists,
                        study_work_items |->
                            IF work_item.study_id \in DOMAIN self.study_work_items
                            THEN [self.study_work_items EXCEPT ![work_item.study_id] = retain_ne(@, work_item_id)]
                            ELSE self.study_work_items],
              result |-> Ok(Unit)]
    ELSE [self |-> self, result |-> Err("NotFound")]

\* WorkListManager::get_all_active_work_items (as the set of their ids)
get_all_active_work_items(self) ==
    {id \in DOMAIN self.work_items : self.work_items[id].status \in {"Pending", "InProgress"}}

(***************************************************************************)
(* critical_value.rs: CriticalValueEvent, NotificationRecord,              *)
(* CriticalValuePolicy, CriticalValueProcessor                             *)
(***************************************************************************)
CriticalValueType == {"LifeThreatening", "Emergency", "Urgent", "Critical"}

CriticalSeverity == {"Low", "Medium", "High", "Critical"}

NotificationMethod == {"InApp", "Email", "SMS", "PhoneCall", "Pager"}

NotificationStatus == {"Pending", "Sent", "Delivered", "Read", "Acknowledged", "Failed"}

\* RecipientType
SpecificUser(id) == [kind |-> "SpecificUser", id |-> id]
DepartmentHead == [kind |-> "DepartmentHead"]

\* NotificationRule; recipient_id, delay_minutes and require_acknowledgment
\* are never read by the processor and are left out
NotificationRule(recipient_type, methods) ==
    [recipient_type |-> recipient_type, methods |-> methods]

EscalationRule(condition, action, trigger_after_minutes) ==
    [condition |-> condition, action |-> action, trigger_after_minutes |-> trigger_after_minutes]

CriticalValuePolicy(id, value_types, notification_rules, escalation_rules, is_active) ==
    [id |-> id, value_types |-> value_types, notification_rules |-> notification_rules,
     escalation_rules |-> escalation_rules, is_active |-> is_active]

\* CriticalValueProcessor::add_policy
add_policy(self, policy) == [self EXCEPT !.policies = Append(@, policy)]

\* the push of create_notification for one method of a rule; id is the
\* record's fresh Uuid (sent_at is set here and never read)
push_notification(self, id, event, recipient_id, method) ==
    LET notification == [id |-> id, event_id |-> event.id, recipient_id |-> recipient_id,
                         method |-> method, status |-> "Pending", retry_count |-> 0,
                         error_message |-> None]
    IN  [self EXCEPT !.notifications = entry_push(@, event.id, notification),
                     !.notification_queue = Append(@, notification)]

\* CriticalValueProcessor::create_notification, from the method at index i
\* of the rule on; next_id is the first unused Uuid
RECURSIVE create_notification_from(_, _, _, _, _)
create_notification_from(self, next_id, event, rule, i) ==
    IF rule.recipient_type.kind # "SpecificUser" \/ i > Len(rule.methods)
    THEN [self |-> self, next_id |-> next_id]
    ELSE create_notification_from(
             push_notification(self, next_id, event, rule.recipient_type.id, rule.methods[i]),
             next_id + 1, event, rule, i + 1)

create_notification(self, next_id, event, rule) ==
    create_notification_from(self, next_id, event, rule, 1)

\* the rules of the matching policies, in the order process_critical_value_event
\* walks them
RECURSIVE matching_rules(_, _, _)
matching_rules(policies, event, i) ==
    IF i > Len(policies) THEN <<>>
    ELSE (IF policies[i].is_active /\ event.value_type \in policies[i].value_types
          THEN policies[i].notification_rules ELSE <<>>)
         \o matching_rules(policies, event, i + 1)

RECURSIVE create_notifications(_, _, _, _, _)
create_notifications(self, next_id, event, rules, i) ==
    IF i > Len(rules) THEN [self |-> self, next_id |-> next_id]
    ELSE LET r == create_notification(self, next_id, event, rules[i])
         IN  create_notifications(r.self, r.next_id, event, rules, i + 1)

\* CriticalValueProcessor::process_critical_value_event
process_critical_value_event(self, next_id, event) ==
    create_notifications(self, next_id, event, matching_rules(self.policies, event, 1), 1)

\* CriticalValueProcessor::create_critical_value_event; next_id is the first
\* unused Uuid and becomes the event's id (description, detected_by, patient_id
\* and clinical_context are stored and never read)
create_critical_value_event(self, next_id, study_id, value_type, severity, now) ==
    LET event == [id |-> next_id, study_id |-> study_id, value_type |-> value_type,
                  detected_at |-> now, severity |-> severity]
        r == process_critical_value_event(
                 [self EXCEPT !.events = (next_id :> event) @@ @], next_id + 1, event)
    IN  [self |-> r.self, next_id |-> r.next_id, result |-> Ok(event)]

\* CriticalValueProcessor::send_notification: every method arm logs, sleeps
\* and returns Ok(())
send_notification(notification) == Ok(Unit)

\* the index of the first record of records whose id is id, 0 when none
position(records, id) ==
    IF \E i \in DOMAIN records : records[i].id = id
    THEN CHOOSE i \in DOMAIN records :
             records[i].id = id /\ \A j \in 1 .. i - 1 : records[j].id # id
    ELSE 0

\* the loop body that puts a failed record back in the queue whatever its
\* retry count
process_notification_requeues_always(self, queued, outcome) ==
    LET notification ==
            IF outcome.ok THEN [queued EXCEPT !.status = "Sent"]
            ELSE [queued EXCEPT !.status = "Failed",
                                !.error_message = Some(outcome.error),
                                !.retry_count = @ + 1]
        requeued ==
            IF ~ outcome.ok
            THEN [self EXCEPT !.notification_queue = Append(@, notification)]
            ELSE self
        pos == IF notification.event_id \in DOMAIN self.notifications
               THEN position(self.notifications[notification.event_id], notification.id)
               ELSE 0
    IN  IF pos # 0
        THEN [requeued EXCEPT !.notifications[notification.event_id][pos] = notification]
        ELSE requeued

\* the loop body that puts a failed record back in the queue while its retry
\* count is at most 3
process_notification_retries_once_more(self, queued, outcome) ==
    LET notification ==
            IF outcome.ok THEN [queued EXCEPT !.status = "Sent"]
            ELSE [queued EXCEPT !.status = "Failed",
                                !.error_message = Some(outcome.error),
                                !.retry_count = @ + 1]
        requeued ==
            IF ~ outcome.ok /\ notification.retry_count <= 3
            THEN [self EXCEPT !.notification_queue = Append(@, notification)]
            ELSE self
        pos == IF notification.event_id \in DOMAIN self.notifications
               THEN position(self.notifications[notification.event_id], notification.id)
               ELSE 0
    IN  IF pos # 0
        THEN [requeued EXCEPT !.notifications[notification.event_id][pos] = notification]
        ELSE requeued

\* the loop body that counts every send as an attempt: a sent record also
\* gets its retry count raised and goes back in the queue while the count is
\* below 3
process_notification_counts_every_send(self, queued, outcome) ==
    LET notification ==
            IF outcome.ok THEN [queued EXCEPT !.status = "Sent", !.retry_count = @ + 1]
            ELSE [queued EXCEPT !.status = "Failed",
                                !.error_message = Some(outcome.error),
                                !.retry_count = @ + 1]
        requeued ==
            IF notification.retry_count < 3
            THEN [self EXCEPT !.notification_queue = Append(@, notification)]
            ELSE self
        pos == IF notification.event_id \in DOMAIN self.notifications
               THEN position(self.notifications[notification.event_id], notification.id)
               ELSE 0
    IN  IF pos # 0
        THEN [requeued EXCEPT !.notifications[notification.event_id][pos] = notification]
        ELSE requeued

\* the body of process_notification_queue's loop for one queued record;
\* outcome is what send_notification returned for it
process_notification(self, queued, outcome) ==
    LET notification ==
            IF outcome.ok THEN [queued EXCEPT !.status = "Sent"]
            ELSE [queued EXCEPT !.status = "Failed",
                                !.error_message = Some(outcome.error),
                                !.retry_count = @ + 1]
        requeued ==
            IF ~ outcome.ok /\ notification.retry_count < 3
            THEN [self EXCEPT !.notification_queue = Append(@, notification)]
            ELSE self
        pos == IF notification.event_id \in DOMAIN self.notifications
               THEN position(self.notifications[notification.event_id], notification.id)
               ELSE 0
    IN  IF pos # 0
        THEN [requeued EXCEPT !.notifications[notification.event_id][pos] = notification]
        ELSE requeued

\* the loop of process_notification_queue over the records taken out of the
\* queue; outcomes[i] is what the sender returned for the i-th of them
RECURSIVE process_notifications_from(_, _, _, _)
process_notifications_from(self, notifications_to_process, outcomes, i) ==
    IF i > Len(notifications_to_process) THEN self
    ELSE process_notifications_from(
             process_notification(self, notifications_to_process[i], outcomes[i]),
             notifications_to_process, outcomes, i + 1)

\* CriticalValueProcessor::process_notification_queue, given what the sender
\* returns for each queued record
process_notification_queue_with(self, outcomes) ==
    [self |-> process_notifications_from([self EXCEPT !.notification_queue = <<>>],
                                         self.notification_queue, outcomes, 1),
     result |-> Ok(Unit)]

\* CriticalValueProcessor::process_notification_queue with the sender of the
\* source, send_notification
process_notification_queue(self) ==
    process_notification_queue_with(self,
        [i \in DOMAIN self.notification_queue |-> send_notification(self.notification_queue[i])])

\* what an injected notification sender, send(notification, channelConfig),
\* may answer: success or failure
SenderOutcomes == {Ok(Unit), Err("send failed")}

\* an acknowledge_critical_value that closes the event: once a record is
\* acknowledged the event is taken out of the events map
acknowledge_critical_value_closes_event(self, event_id, user_id) ==
    LET notifications == IF event_id \in DOMAIN self.notifications
                         THEN self.notifications[event_id] ELSE <<>>
        mine == {i \in DOMAIN notifications : notifications[i].recipient_id = user_id}
    IN  IF mine # {}
        THEN LET first == CHOOSE i \in mine : \A j \in mine : i <= j
             IN  [self |-> [self EXCEPT !.notifications[event_id][first].status = "Acknowledged",
                                        !.events = [id \in DOMAIN @ \ {event_id} |-> @[id]]],
                  result |-> Ok(Unit)]
        ELSE [self |-> self, result |-> Err("NotFound")]

\* CriticalValueProcessor::acknowledge_critical_value
acknowledge_critical_value(self, event_id, user_id) ==
    LET notifications == IF event_id \in DOMAIN self.notifications
                         THEN self.notifications[event_id] ELSE <<>>
        mine == {i \in DOMAIN notifications : notifications[i].recipient_id = user_id}
    IN  IF mine # {}
        THEN LET first == CHOOSE i \in mine : \A j \in mine : i <= j
             IN  [self |-> [self EXCEPT !.notifications[event_id][first].status = "Acknowledged"],
                  result |-> Ok(Unit)]
        ELSE [self |-> self, result |-> Err("NotFound")]

\* CriticalValueProcessor::get_unacknowledged_events (as the set of their ids)
get_unacknowledged_events(self) ==
    {id \in DOMAIN self.events :
        IF id \in DOMAIN self.notifications
        THEN ~ \E i \in DOMAIN self.notifications[id] :
                   self.notifications[id][i].status = "Acknowledged"
        ELSE TRUE}

\* the milliseconds of a minute: times are counted in milliseconds
MsPerMinute == 60000

\* a num_minutes that rounds to the nearest minute
num_minutes_rounded(duration) ==
    IF duration >= 0 THEN (duration + MsPerMinute \div 2) \div MsPerMinute
    ELSE -((MsPerMinute \div 2 - duration) \div MsPerMinute)

\* chrono::Duration::num_minutes: the whole minutes of the duration,
\* truncated towards zero
num_minutes(duration) ==
    IF duration >= 0 THEN duration \div MsPerMinute ELSE -((-duration) \div MsPerMinute)

\* CriticalValueProcessor::should_escalate
should_escalate(notifications, condition) ==
    CASE condition = "NotAcknowledged" ->
             ~ \E i \in DOMAIN notifications : notifications[i].status = "Acknowledged"
      [] condition = "NotDelivered" ->
             ~ \E i \in DOMAIN notifications :
                   notifications[i].status \in {"Delivered", "Read", "Acknowledged"}
      [] condition = "NoResponse" ->
             \A i \in DOMAIN notifications : notifications[i].status = "Sent"
      [] condition = "RecipientUnavailable" -> FALSE

\* the escalation_rules loop of check_escalations for one event and policy,
\* from the rule at index i on
RECURSIVE rule_escalations(_, _, _, _, _)
rule_escalations(notifications, event, escalation_rules, now, i) ==
    IF i > Len(escalation_rules) THEN <<>>
    ELSE (IF /\ num_minutes(now - event.detected_at) >= escalation_rules[i].trigger_after_minutes
             /\ should_escalate(notifications, escalation_rules[i].condition)
          THEN <<escalation_rules[i].action>> ELSE <<>>)
         \o rule_escalations(notifications, event, escalation_rules, now, i + 1)

\* the policies loop of check_escalations for one event, from the policy at
\* index i on
RECURSIVE policy_escalations(_, _, _, _, _)
policy_escalations(self, notifications, event, now, i) ==
    IF i > Len(self.policies) THEN <<>>
    ELSE (IF self.policies[i].is_active /\ event.value_type \in self.policies[i].value_types
          THEN rule_escalations(notifications, event, self.policies[i].escalation_rules, now, 1)
          ELSE <<>>)
         \o policy_escalations(self, notifications, event, now, i + 1)

\* the outer loop of check_escalations; iter is the order in which
\* self.notifications yields its keys
RECURSIVE event_escalations(_, _, _, _)
event_escalations(self, now, iter, i) ==
    IF i > Len(iter) THEN <<>>
    ELSE (IF iter[i] \in DOMAIN self.events
          THEN policy_escalations(self, self.notifications[iter[i]], self.events[iter[i]], now, 1)
          ELSE <<>>)
         \o event_escalations(self, now, iter, i + 1)

\* a check_escalations that acts on what it finds: it queues every stored
\* record of an event again when an escalation is due
check_escalations_and_notify(self, now, iter) ==
    LET escalations == event_escalations(self, now, iter, 1)
        again == [i \in 1 .. Len(iter) |-> self.notifications[iter[i]]]
        RECURSIVE flat(_)
        flat(i) == IF i > Len(again) THEN <<>> ELSE again[i] \o flat(i + 1)
    IN  [self |-> IF escalations = <<>> THEN self
                  ELSE [self EXCEPT !.notification_queue = @ \o flat(1)],
         result |-> Ok(escalations)]

\* CriticalValueProcessor::check_escalations; now is chrono::Utc::now()
check_escalations(self, now, iter) ==
    [self |-> self, result |-> Ok(event_escalations(self, now, iter, 1))]

(***************************************************************************)
(* routing.rs: Radiologist, RoutingRule, RoutingEngine                     *)
(***************************************************************************)
RadiologistSpecialty ==
    {"General", "Neuroradiology", "Musculoskeletal", "Cardiac", "Abdominal", "Chest",
     "Pediatric", "Breast"}

RoutingPriority == {"Emergency", "Urgent", "Routine", "Low"}

\* Radiologist (name is only used in messages)
Radiologist(id, specialties, max_workload, is_available) ==
    [id |-> id, specialties |-> specialties, max_workload |-> max_workload,
     is_available |-> is_available]

\* RuleCondition
ModalityEquals(modality) == [kind |-> "ModalityEquals", modality |-> modality]
ModalityIn(modalities) == [kind |-> "ModalityIn", modalities |-> modalities]
DescriptionContains(keyword) == [kind |-> "DescriptionContains", keyword |-> keyword]
TimeRange == [kind |-> "TimeRange"]
IsEmergency == [kind |-> "Emergency"]
IsRoutine == [kind |-> "Routine"]

\* RuleAction
AssignToRadiologist(id) == [kind |-> "AssignToRadiologist", id |-> id]
AssignToSpecialty(specialty) == [kind |-> "AssignToSpecialty", specialty |-> specialty]
QueueInPool(queue_name) == [kind |-> "QueueInPool", queue_name |-> queue_name]
NotifyAdmin == [kind |-> "NotifyAdmin"]

\* RoutingRule (name is only used in messages)
RoutingRule(id, priority, conditions, action, is_active) ==
    [id |-> id, priority |-> priority, conditions |-> conditions, action |-> action,
     is_active |-> is_active]

\* RoutingResult (reason is a message)
RoutingResult(study_id, assigned_to, queue_name, priority, rule_applied) ==
    [study_id |-> study_id, assigned_to |-> assigned_to, queue_name |-> queue_name,
     priority |-> priority, rule_applied |-> rule_applied]

\* the Study fields the workflow reads; a String that is searched is a
\* sequence of characters
Study(id, modality, description, status) ==
    [id |-> id, modality |-> modality, description |-> description, status |-> status]

\* str::to_lowercase on the letters that occur in the descriptions and keywords
to_lowercase(s) ==
    [i \in DOMAIN s |->
        CASE s[i] = "H" -> "h"
          [] s[i] = "E" -> "e"
          [] s[i] = "A" -> "a"
          [] s[i] = "D" -> "d"
          [] OTHER -> s[i]]

\* str::contains
contains(s, pat) ==
    \E i \in 0 .. Len(s) - Len(pat) : \A j \in 1 .. Len(pat) : s[i + j] = pat[j]

\* a sort of the rules that puts a rule in front of the rules of its priority
sort_rules_unstable(rules) ==
    LET n == Len(rules)
        before(j, i) ==
            LET c == cmp(rules[i].priority, rules[j].priority)
            IN  c = "Less" \/ (j > i /\ c = "Equal")
        pos == [i \in 1 .. n |-> Cardinality({j \in 1 .. n : before(j, i)}) + 1] @@ <<>>
    IN  [p \in 1 .. n |-> rules[CHOOSE i \in 1 .. n : pos[i] = p]]

\* the stable sort of add_rule: sort_by(|a, b| b.priority.cmp(&a.priority))
sort_rules(rules) ==
    LET n == Len(rules)
        before(j, i) ==
            LET c == cmp(rules[i].priority, rules[j].priority)
            IN  c = "Less" \/ (j < i /\ c = "Equal")
        pos == [i \in 1 .. n |-> Cardinality({j \in 1 .. n : before(j, i)}) + 1] @@ <<>>
    IN  [p \in 1 .. n |-> rules[CHOOSE i \in 1 .. n : pos[i] = p]]

\* RoutingEngine::add_rule
add_rule(self, rule) == [self EXCEPT !.rules = sort_rules(Append(@, rule))]

\* HashMap::insert
map_insert(map, key, v) == (key :> v) @@ map

\* RoutingEngine::add_radiologist
add_radiologist(self, radiologist) ==
    [self EXCEPT !.workload_map = map_insert(@, radiologist.id, 0),
                 !.radiologists = map_insert(@, radiologist.id, radiologist)]

\* i32::MAX, the largest value of a workload counter
I32Max == 2147483647

\* whether a + b leaves the range of i32
overflows(a, b) ==
    \/ b > 0 /\ a > I32Max - b
    \/ b < 0 /\ a < (-I32Max - 1) - b

\* a + b on i32 where overflow checks are off: the sum modulo 2^32
wrapping_add(a, b) ==
    IF b > 0 /\ a > I32Max - b THEN (a - I32Max - 1) + (b - I32Max - 1)
    ELSE IF b < 0 /\ a < (-I32Max - 1) - b THEN (a + I32Max + 1) + (b + I32Max + 1)
    ELSE a + b

\* update_workload without the clamp at zero
update_workload_unclamped(self, radiologist_id, delta) ==
    IF radiologist_id \in DOMAIN self.workload_map
    THEN [self EXCEPT !.workload_map[radiologist_id] = wrapping_add(@, delta)]
    ELSE self

\* RoutingEngine::update_workload, built without overflow checks (with them
\* the += panics when overflows(workload, delta))
update_workload(self, radiologist_id, delta) ==
    IF radiologist_id \in DOMAIN self.workload_map
    THEN LET workload == wrapping_add(self.workload_map[radiologist_id], delta)
         IN  [self EXCEPT !.workload_map[radiologist_id] = IF workload < 0 THEN 0 ELSE workload]
    ELSE self

\* RoutingEngine::get_workload
get_workload(self, radiologist_id) ==
    IF radiologist_id \in DOMAIN self.workload_map THEN self.workload_map[radiologist_id] ELSE 0

\* RoutingEngine::evaluate_condition
evaluate_condition(condition, study, priority) ==
    CASE condition.kind = "ModalityEquals" -> study.modality = condition.modality
      [] condition.kind = "ModalityIn" -> study.modality \in condition.modalities
      [] condition.kind = "DescriptionContains" ->
             IF IsSome(study.description)
             THEN contains(to_lowercase(Unwrap(study.description)), to_lowercase(condition.keyword))
             ELSE FALSE
      [] condition.kind = "Emergency" -> priority = "Emergency"
      [] condition.kind = "Routine" -> priority = "Routine"
      [] condition.kind = "TimeRange" -> TRUE

\* RoutingEngine::evaluate_conditions
evaluate_conditions(conditions, study, priority) ==
    \A i \in DOMAIN conditions : evaluate_condition(conditions[i], study, priority)

\* find_best_radiologist_for_specialty that takes the first eligible reviewer
\* the map yields instead of the least loaded
find_first_radiologist_for_specialty(self, specialty, iter) ==
    LET eligible == SelectSeq(iter, LAMBDA id :
                        /\ self.radiologists[id].is_available
                        /\ specialty \in self.radiologists[id].specialties
                        /\ get_workload(self, id) < self.radiologists[id].max_workload)
    IN  IF eligible = <<>> THEN None ELSE Some(eligible[1])

\* RoutingEngine::find_best_radiologist_for_specialty; iter is the order in
\* which self.radiologists.iter() yields the keys, and min_by_key returns the
\* first of several equally small elements
find_best_radiologist_for_specialty(self, specialty, iter) ==
    LET eligible == SelectSeq(iter, LAMBDA id :
                        /\ self.radiologists[id].is_available
                        /\ specialty \in self.radiologists[id].specialties
                        /\ get_workload(self, id) < self.radiologists[id].max_workload)
    IN  IF eligible = <<>> THEN None
        ELSE Some(eligible[CHOOSE i \in DOMAIN eligible :
                      /\ \A j \in DOMAIN eligible :
                             get_workload(self, eligible[i]) <= get_workload(self, eligible[j])
                      /\ \A j \in 1 .. i - 1 :
                             get_workload(self, eligible[j]) > get_workload(self, eligible[i])])

\* an apply_action that sends the study to the general pool when the rule's
\* reviewer is unknown or unavailable
apply_action_falls_back(self, rule, request, iter) ==
    CASE rule.action.kind = "AssignToRadiologist" ->
             IF /\ rule.action.id \in DOMAIN self.radiologists
                /\ self.radiologists[rule.action.id].is_available
             THEN Ok(RoutingResult(request.study.id, Some(rule.action.id), None,
                                   request.priority, Some(rule.id)))
             ELSE Ok(RoutingResult(request.study.id, None, Some("general_pool"),
                                   request.priority, None))
      [] rule.action.kind = "AssignToSpecialty" ->
             Ok(RoutingResult(request.study.id,
                              find_best_radiologist_for_specialty(self, rule.action.specialty, iter),
                              None, request.priority, Some(rule.id)))
      [] rule.action.kind = "QueueInPool" ->
             Ok(RoutingResult(request.study.id, None, Some(rule.action.queue_name),
                              request.priority, Some(rule.id)))
      [] rule.action.kind = "NotifyAdmin" ->
             Ok(RoutingResult(request.study.id, None, Some("admin_review"),
                              request.priority, Some(rule.id)))

\* an apply_action whose queue and administrative-review arms also assign
\* the least loaded General reviewer
apply_action_queues_and_assigns(self, rule, request, iter) ==
    CASE rule.action.kind = "AssignToRadiologist" ->
             IF rule.action.id \in DOMAIN self.radiologists
             THEN IF self.radiologists[rule.action.id].is_available
                  THEN Ok(RoutingResult(request.study.id, Some(rule.action.id), None,
                                        request.priority, Some(rule.id)))
                  ELSE Err("RoutingError")
             ELSE Err("RoutingError")
      [] rule.action.kind = "AssignToSpecialty" ->
             Ok(RoutingResult(request.study.id,
                              find_best_radiologist_for_specialty(self, rule.action.specialty, iter),
                              None, request.priority, Some(rule.id)))
      [] rule.action.kind = "QueueInPool" ->
             Ok(RoutingResult(request.study.id,
                              find_best_radiologist_for_specialty(self, "General", iter),
                              Some(rule.action.queue_name), request.priority, Some(rule.id)))
      [] rule.action.kind = "NotifyAdmin" ->
             Ok(RoutingResult(request.study.id,
                              find_best_radiologist_for_specialty(self, "General", iter),
                              Some("admin_review"), request.priority, Some(rule.id)))

\* RoutingEngine::apply_action
apply_action(self, rule, request, iter) ==
    CASE rule.action.kind = "AssignToRadiologist" ->
             IF rule.action.id \in DOMAIN self.radiologists
             THEN IF self.radiologists[rule.action.id].is_available
                  THEN Ok(RoutingResult(request.study.id, Some(rule.action.id), None,
                                        request.priority, Some(rule.id)))
                  ELSE Err("RoutingError")
             ELSE Err("RoutingError")
      [] rule.action.kind = "AssignToSpecialty" ->
             Ok(RoutingResult(request.study.id,
                              find_best_radiologist_for_specialty(self, rule.action.specialty, iter),
                              None, request.priority, Some(rule.id)))
      [] rule.action.kind = "QueueInPool" ->
             Ok(RoutingResult(request.study.id, None, Some(rule.action.queue_name),
                              request.priority, Some(rule.id)))
      [] rule.action.kind = "NotifyAdmin" ->
             Ok(RoutingResult(request.study.id, None, Some("admin_review"),
                              request.priority, Some(rule.id)))

\* a default_routing that names the pool whenever it is called
default_routing_always_pool(self, request, iter) ==
    Ok(RoutingResult(request.study.id, find_best_radiologist_for_specialty(self, "General", iter),
                     Some("general_pool"), request.priority, None))

\* RoutingEngine::default_routing
default_routing(self, request, iter) ==
    LET best_general_radiologist == find_best_radiologist_for_specialty(self, "General", iter)
    IN  Ok(RoutingResult(request.study.id, best_general_radiologist,
                         IF best_general_radiologist = None THEN Some("general_pool") ELSE None,
                         request.priority, None))

\* RoutingEngine::route_study; request is a RoutingRequest
route_study(self, request, iter) ==
    LET matching == {i \in DOMAIN self.rules :
                        /\ self.rules[i].is_active
                        /\ evaluate_conditions(self.rules[i].conditions, request.study,
                                               request.priority)}
    IN  IF matching # {}
        THEN apply_action(self, self.rules[CHOOSE i \in matching : \A j \in matching : i <= j],
                          request, iter)
        ELSE default_routing(self, request, iter)

\* RoutingEngine::get_available_radiologists (as the set of their ids)
get_available_radiologists(self) ==
    {id \in DOMAIN self.radiologists : self.radiologists[id].is_available}

\* RoutingEngine::set_radiologist_availability
set_radiologist_availability(self, radiologist_id, is_available) ==
    IF radiologist_id \in DOMAIN self.radiologists
    THEN [self EXCEPT !.radiologists[radiologist_id].is_available = is_available]
    ELSE self

(***************************************************************************)
(* engine.rs: WorkflowEngine.  Its operations act on the routing engine    *)
(* and the worklist manager it owns.                                       *)
(***************************************************************************)
\* the ids of a sequence of work items
Ids(items) == [i \in DOMAIN items |-> items[i].id]

\* WorkflowEngine::map_priority_to_worklist
map_priority_to_worklist(routing_priority) ==
    CASE routing_priority = "Emergency" -> "Critical"
      [] routing_priority = "Urgent" -> "High"
      [] routing_priority = "Routine" -> "Normal"
      [] routing_priority = "Low" -> "Low"

\* a process_new_study that counts a new work item twice
count_new_work_item_twice(routing, radiologist_id) == update_workload(routing, radiologist_id, 2)

\* the workload update of process_new_study for the reviewer of the new item
count_new_work_item(routing, radiologist_id) == update_workload(routing, radiologist_id, 1)

\* WorkflowEngine::process_new_study; iter is the iteration order of the
\* reviewer map, id the Uuid of the work item if one is created.  Step 1 of
\* the function only logs.
process_new_study(routing, worklist, study, priority, iter, id, now) ==
    LET routed == route_study(routing, [study |-> study, priority |-> priority], iter)
        routing_result == routed.value
        assigned == create_work_item(worklist, id, study.id, routing_result.assigned_to,
                                     map_priority_to_worklist(priority), None, now)
        queued == create_work_item(worklist, id, study.id, None,
                                   map_priority_to_worklist(priority), None, now)
    IN  IF ~ routed.ok
        THEN [routing_engine |-> routing, worklist_manager |-> worklist,
              routing_result |-> None, result |-> routed]
        ELSE IF IsSome(routing_result.assigned_to)
        THEN [routing_engine |-> count_new_work_item(routing, Unwrap(routing_result.assigned_to)),
              worklist_manager |-> assigned.self,
              routing_result |-> Some(routing_result), result |-> Ok(Unit)]
        ELSE IF IsSome(routing_result.queue_name)
        THEN [routing_engine |-> routing, worklist_manager |-> queued.self,
              routing_result |-> Some(routing_result), result |-> Ok(Unit)]
        ELSE [routing_engine |-> routing, worklist_manager |-> worklist,
              routing_result |-> Some(routing_result), result |-> Ok(Unit)]

\* the body of update_study_status's loop for one work item id
update_study_work_item(routing, worklist, work_item_id, event) ==
    LET work_item == get_work_item(worklist, work_item_id)
        radiologist_id == Unwrap(work_item).radiologist_id
        status == CASE event = "Started" -> "InProgress"
                    [] event = "Completed" -> "Completed"
                    [] event = "Canceled" -> "Rejected"
                    [] OTHER -> "unchanged"
    IN  IF ~ IsSome(work_item) \/ event \notin {"Started", "Completed", "Canceled"}
        THEN [routing_engine |-> routing, worklist_manager |-> worklist]
        ELSE [routing_engine |->
                  IF event \in {"Completed", "Canceled"} /\ IsSome(radiologist_id)
                  THEN update_workload(routing, Unwrap(radiologist_id), -1)
                  ELSE routing,
              worklist_manager |-> update_work_item_status(worklist, work_item_id, status).self]

RECURSIVE update_study_work_items(_, _, _, _, _)
update_study_work_items(routing, worklist, work_item_ids, event, i) ==
    IF i > Len(work_item_ids)
    THEN [routing_engine |-> routing, worklist_manager |-> worklist]
    ELSE LET r == update_study_work_item(routing, worklist, work_item_ids[i], event)
         IN  update_study_work_items(r.routing_engine, r.worklist_manager, work_item_ids, event, i + 1)

\* update_study_status that updates the study's work items before it
\* validates the transition
update_study_status_updates_first(routing, worklist, study_id, current_status, event) ==
    LET new_status == transition(current_status, event)
        work_item_ids == Ids(get_study_work_items(worklist, study_id))
        r == update_study_work_items(routing, worklist, work_item_ids, event, 1)
    IN  [routing_engine |-> r.routing_engine, worklist_manager |-> r.worklist_manager,
         result |-> new_status]

\* WorkflowEngine::update_study_status
update_study_status(routing, worklist, study_id, current_status, event) ==
    LET new_status == transition(current_status, event)
        work_item_ids == Ids(get_study_work_items(worklist, study_id))
        r == update_study_work_items(routing, worklist, work_item_ids, event, 1)
    IN  IF new_status.ok
        THEN [routing_engine |-> r.routing_engine, worklist_manager |-> r.worklist_manager,
              result |-> new_status]
        ELSE [routing_engine |-> routing, worklist_manager |-> worklist, result |-> new_status]

\* the sum of the values of the function f, whose domain is finite
RECURSIVE sum(_)
sum(f) ==
    IF DOMAIN f = {} THEN 0
    ELSE LET x == CHOOSE x \in DOMAIN f : TRUE
         IN  f[x] + sum([y \in DOMAIN f \ {x} |-> f[y]])

\* an f64 that is the quotient of two i32 values, kept as the pair
Ratio(num, den) == [num |-> num, den |-> den]

\* WorkflowEngine::calculate_system_load; work_items are the ids of the
\* active work items and radiologists the ids of the available reviewers
calculate_system_load(routing, worklist, work_items, radiologists) ==
    IF radiologists = {} THEN Ratio(1, 1)
    ELSE LET total_capacity == sum([id \in radiologists |-> routing.radiologists[id].max_workload])
             workload_of(item) ==
                 IF IsSome(item.radiologist_id)
                 THEN get_workload(routing, Unwrap(item.radiologist_id))
                 ELSE 0
             current_workload == sum([id \in work_items |-> workload_of(worklist.work_items[id])])
         IN  IF total_capacity = 0 THEN Ratio(1, 1)
             ELSE Ratio(current_workload, total_capacity)

\* WorkflowEngine::get_system_overview
get_system_overview(routing, worklist, processor) ==
    LET active_work_items == get_all_active_work_items(worklist)
        unacknowledged_critical == get_unacknowledged_events(processor)
        available_radiologists == get_available_radiologists(routing)
    IN  [total_active_work_items |-> Cardinality(active_work_items),
         total_unacknowledged_critical_values |-> Cardinality(unacknowledged_critical),
         available_radiologists_count |-> Cardinality(available_radiologists),
         system_load |-> calculate_system_load(routing, worklist, active_work_items,
                                               available_radiologists)]

\* WorkflowEngine::assign_work_item
engine_assign_work_item(routing, worklist, work_item_id, radiologist_id, now) ==
    LET r == assign_work_item(worklist, work_item_id, radiologist_id, now)
    IN  IF r.result.ok
        THEN [routing_engine |-> update_workload(routing, radiologist_id, 1),
              worklist_manager |-> r.self, result |-> Ok(Unit)]
        ELSE [routing_engine |-> routing, worklist_manager |-> worklist, result |-> r.result]

\* the workload_delta match of WorkflowEngine::update_work_item_status
workload_delta(old_status, status) ==
    CASE old_status = "Pending" /\ status = "InProgress" -> 0
      [] old_status = "InProgress" /\ status = "Completed" -> -1
      [] old_status = "InProgress" /\ status = "Rejected" -> -1
      [] old_status = "Pending" /\ status = "Rejected" -> -1
      [] OTHER -> 0

\* WorkflowEngine::update_work_item_status
engine_update_work_item_status(routing, worklist, work_item_id, status) ==
    LET work_item == get_work_item(worklist, work_item_id)
        old_status == Unwrap(work_item).status
        radiologist_id == Unwrap(work_item).radiologist_id
    IN  IF IsSome(work_item)
        THEN [routing_engine |->
                  IF IsSome(radiologist_id) /\ workload_delta(old_status, status) # 0
                  THEN update_workload(routing, Unwrap(radiologist_id),
                                       workload_delta(old_status, status))
                  ELSE routing,
              worklist_manager |-> update_work_item_status(worklist, work_item_id, status).self,
              result |-> Ok(Unit)]
        ELSE [routing_engine |-> routing, worklist_manager |-> worklist,
              result |-> Err("NotFound")]

Studies == {"s1", "s2"}

EmptyWorklist == [work_items |-> <<>>, radiologist_worklists |-> <<>>, study_work_items |-> <<>>]
EmptyRouting == [rules |-> <<>>, radiologists |-> <<>>, workload_map |-> <<>>]
EmptyProcessor == [events |-> <<>>, notifications |-> <<>>, policies |-> <<>>, notification_queue |-> <<>>]

NoCall == [op |-> "new"]

(***************************************************************************)
(* The state machine applied to the studies' persisted statuses             *)
(***************************************************************************)
InitSM ==
    /\ study_status \in [Studies -> StudyStatus]
    /\ worklist_manager = EmptyWorklist
    /\ routing_engine = EmptyRouting
    /\ critical_processor = EmptyProcessor
    /\ issued = 0
    /\ clock = 0
    /\ backlog = 0
    /\ sent = <<>>
    /\ in_flight = <<>>
    /\ calls = 0
    /\ last = NoCall

\* a caller asks can_transition and transition for the study's status and
\* persists the new status when the transition is accepted
ApplyEvent(s, e) ==
    LET from == study_status[s]
        r == transition(from, e)
    IN  /\ study_status' = IF r.ok THEN [study_status EXCEPT ![s] = r.value] ELSE study_status
        /\ last' = [op |-> "transition", study |-> s, from |-> from, event |-> e,
                    can |-> can_transition(from, e), result |-> r]
        /\ UNCHANGED <<worklist_manager, routing_engine, critical_processor, issued, clock, backlog, sent, in_flight, calls>>

NextSM == \E s \in Studies, e \in StudyEvent : ApplyEvent(s, e)

SpecSM == InitSM /\ [][NextSM]_vars

(***************************************************************************)
(* The lifecycle of studies that begin as Scheduled; last.path keeps, for   *)
(* each study, the statuses it has had                                      *)
(***************************************************************************)
\* the longest history of statuses that is kept for a study
MaxPath == 8

InitLife ==
    /\ study_status = [s \in Studies |-> "Scheduled"]
    /\ worklist_manager = EmptyWorklist
    /\ routing_engine = EmptyRouting
    /\ critical_processor = EmptyProcessor
    /\ issued = 0
    /\ clock = 0
    /\ backlog = 0
    /\ sent = <<>>
    /\ in_flight = <<>>
    /\ calls = 0
    /\ last = [op |-> "new", path |-> [s \in Studies |-> <<"Scheduled">>]]

\* a caller asks can_transition and transition for the study's status and
\* persists the new status when the transition is accepted
LifeEvent(s, e) ==
    LET from == study_status[s]
        r == transition(from, e)
    IN  /\ Len(last.path[s]) < MaxPath
        /\ study_status' = IF r.ok THEN [study_status EXCEPT ![s] = r.value] ELSE study_status
        /\ last' = [op |-> "transition", study |-> s, from |-> from, event |-> e,
                    can |-> can_transition(from, e), result |-> r,
                    path |-> IF r.ok THEN [last.path EXCEPT ![s] = Append(@, r.value)]
                             ELSE last.path]
        /\ UNCHANGED <<worklist_manager, routing_engine, critical_processor, issued, clock, backlog, sent, in_flight, calls>>

NextLife == \E s \in Studies, e \in StudyEvent : LifeEvent(s, e)

SpecLife == InitLife /\ [][NextLife]_vars

(***************************************************************************)
(* The worklist manager on its own: calls of its public methods             *)
(***************************************************************************)
MaxItems == 2        \* work items created in a run (beyond the backlog)
MaxTime == 1         \* the clock runs from 0 to MaxTime
MaxCalls == 3        \* state-changing calls in a run

Radiologists == {"r1", "r2"}

\* the manager after n calls create_work_item("s1", Some("r2"), priority, ..)
\* made at time 0, which issue the ids 1 .. n: a backlog of n pending items
Backlog(n, priority) ==
    IF n = 0 THEN EmptyWorklist
    ELSE [work_items |->
              [id \in 1 .. n |->
                  [id |-> id, study_id |-> "s1", radiologist_id |-> Some("r2"),
                   status |-> "Pending", priority |-> priority,
                   assigned_at |-> 0, due_at |-> None]],
          radiologist_worklists |-> ("r2" :> [i \in 1 .. n |-> i]),
          study_work_items |-> ("s1" :> [i \in 1 .. n |-> i])]

InitBacklog(sizes) ==
    /\ study_status = [s \in Studies |-> "Scheduled"]
    /\ backlog \in sizes
    /\ sent = <<>>
    /\ in_flight = <<>>
    /\ worklist_manager = Backlog(backlog, "Low")
    /\ routing_engine = EmptyRouting
    /\ critical_processor = EmptyProcessor
    /\ issued = backlog
    /\ clock = 0
    /\ calls = 0
    /\ last = NoCall

\* the ids the calls of a run name: those of the items it creates
ItemIds == (backlog + 1) .. (backlog + MaxItems)

\* the orders in which a HashMap holding the keys S may iterate: every order
\* of a small map, the two monotone ones of a large map
Max(S) == CHOOSE x \in S : \A y \in S : y <= x

Ascending(S) ==
    IF S = {} THEN <<>>
    ELSE SelectSeq([i \in 1 .. Max(S) |-> i], LAMBDA x : x \in S)

Reverse(s) == [i \in DOMAIN s |-> s[Len(s) + 1 - i]]

IterationOrders(S) ==
    IF Cardinality(S) <= MaxItems + 1
    THEN {s \in [1 .. Cardinality(S) -> S] : Range(s) = S}
    ELSE {Ascending(S), Reverse(Ascending(S))}

\* one more state-changing call, while the run may make one
Call ==
    /\ calls < MaxCalls
    /\ calls' = calls + 1

WLUnchanged ==
    /\ Call
    /\ UNCHANGED <<study_status, routing_engine, critical_processor, backlog, sent, in_flight>>

CreateWorkItem(study_id, radiologist_id, priority) ==
    /\ issued < backlog + MaxItems
    /\ LET r == create_work_item(worklist_manager, issued + 1, study_id, radiologist_id, priority, None, clock)
       IN  /\ worklist_manager' = r.self
           /\ last' = [op |-> "create_work_item", id |-> issued + 1, result |-> r.result]
    /\ issued' = issued + 1
    /\ UNCHANGED clock
    /\ WLUnchanged

UpdateWorkItemStatus(work_item_id, status) ==
    /\ LET r == update_work_item_status(worklist_manager, work_item_id, status)
       IN  /\ worklist_manager' = r.self
           /\ last' = [op |-> "update_work_item_status", id |-> work_item_id, status |-> status,
                       result |-> r.result]
    /\ UNCHANGED <<issued, clock>>
    /\ WLUnchanged

AssignWorkItem(work_item_id, radiologist_id) ==
    /\ LET r == assign_work_item(worklist_manager, work_item_id, radiologist_id, clock)
           old == get_work_item(worklist_manager, work_item_id)
       IN  /\ worklist_manager' = r.self
           /\ last' = [op |-> "assign_work_item", id |-> work_item_id,
                       from |-> IF IsSome(old) THEN Unwrap(old).radiologist_id ELSE None,
                       to |-> radiologist_id, result |-> r.result]
    /\ UNCHANGED <<issued, clock>>
    /\ WLUnchanged

RemoveWorkItem(work_item_id) ==
    /\ LET r == remove_work_item(worklist_manager, work_item_id)
       IN  /\ worklist_manager' = r.self
           /\ last' = [op |-> "remove_work_item", id |-> work_item_id, result |-> r.result]
    /\ UNCHANGED <<issued, clock>>
    /\ WLUnchanged

\* the filters query_worklist is called with
QueryFilters ==
    { DefaultFilter,
      WorkListFilter(None, None, None, None, None),
      WorkListFilter(None, None, None, Some(1), Some(1)),
      WorkListFilter(None, Some({"Pending", "InProgress"}), None, Some(DefaultLimit), Some(0)),
      WorkListFilter(None, None, Some({"Critical", "High"}), Some(DefaultLimit), Some(0)) }

\* time passes between two calls
Tick ==
    /\ clock < MaxTime
    /\ clock' = clock + 1
    /\ UNCHANGED <<study_status, worklist_manager, routing_engine, critical_processor, issued, backlog, sent, in_flight, calls, last>>

NextWL ==
    \/ \E s \in Studies, r \in {None} \cup {Some(x) : x \in Radiologists}, p \in WorkItemPriority :
           CreateWorkItem(s, r, p)
    \/ \E id \in ItemIds, st \in WorkItemStatus : UpdateWorkItemStatus(id, st)
    \/ \E id \in ItemIds, r \in Radiologists : AssignWorkItem(id, r)
    \/ \E id \in ItemIds : RemoveWorkItem(id)
    \/ Tick

\* runs that begin with an empty manager
InitWL == InitBacklog({0})

SpecWL == InitWL /\ [][NextWL]_vars

\* runs that begin with an empty manager or with a backlog that fills the
\* default page of a query; the calls are those of NextWL with fewer
\* arguments to choose from
InitPage == InitBacklog({0, DefaultLimit})

NextPage ==
    \/ \E r \in Radiologists, p \in {"Critical", "Low"} : CreateWorkItem("s1", Some(r), p)
    \/ \E id \in ItemIds : UpdateWorkItemStatus(id, "Completed")
    \/ \E id \in ItemIds, r \in Radiologists : AssignWorkItem(id, r)
    \/ \E id \in ItemIds : RemoveWorkItem(id)
    \/ Tick

SpecPage == InitPage /\ [][NextPage]_vars

(***************************************************************************)
(* The critical value processor on its own: policies are added, events are *)
(* created, the queue is drained and events are acknowledged, in any order *)
(***************************************************************************)
MaxPolicies == 2
MaxEvents == 2

Users == {"u1", "u2", "u3"}

\* the policies a caller adds: one that notifies u1 by two methods, one that
\* notifies u2 and a recipient type create_notification does not implement,
\* and an inactive one
PolicyCatalogue ==
    { CriticalValuePolicy("p1", {"LifeThreatening"},
          <<NotificationRule(SpecificUser("u1"), <<"InApp", "Email">>)>>,
          <<EscalationRule("NotAcknowledged", "NotifyAdmin", 1)>>, TRUE),
      CriticalValuePolicy("p2", {"LifeThreatening", "Urgent"},
          <<NotificationRule(SpecificUser("u2"), <<"SMS">>),
            NotificationRule(DepartmentHead, <<"PhoneCall">>)>>,
          <<EscalationRule("NoResponse", "NotifyBackupRecipient", 0)>>, TRUE),
      CriticalValuePolicy("p3", {"Urgent"},
          <<NotificationRule(SpecificUser("u1"), <<"Pager">>)>>,
          <<>>, FALSE) }

\* the Uuids a caller may name as an event: those issued so far and one more
EventIds == 1 .. issued + 1

CVUnchanged == UNCHANGED <<study_status, worklist_manager, routing_engine, backlog, sent, in_flight, calls>>

InitCV ==
    /\ study_status = [s \in Studies |-> "Scheduled"]
    /\ worklist_manager = EmptyWorklist
    /\ routing_engine = EmptyRouting
    /\ critical_processor = EmptyProcessor
    /\ issued = 0
    /\ clock = 0
    /\ backlog = 0
    /\ sent = <<>>
    /\ in_flight = <<>>
    /\ calls = 0
    /\ last = NoCall

AddPolicy(policy) ==
    /\ Len(critical_processor.policies) < MaxPolicies
    /\ critical_processor' = add_policy(critical_processor, policy)
    /\ last' = [op |-> "add_policy", policy |-> policy.id]
    /\ UNCHANGED <<issued, clock>>
    /\ CVUnchanged

CreateCriticalValueEvent(study_id, value_type, severity) ==
    /\ Cardinality(DOMAIN critical_processor.events) < MaxEvents
    /\ LET r == create_critical_value_event(critical_processor, issued + 1, study_id,
                                            value_type, severity, clock)
       IN  /\ critical_processor' = r.self
           /\ issued' = r.next_id - 1
           /\ last' = [op |-> "create_critical_value_event", result |-> r.result]
    /\ UNCHANGED clock
    /\ CVUnchanged

ProcessNotificationQueue ==
    /\ LET r == process_notification_queue(critical_processor)
       IN  /\ critical_processor' = r.self
           /\ last' = [op |-> "process_notification_queue",
                       before |-> critical_processor.notifications, result |-> r.result]
    /\ UNCHANGED <<issued, clock>>
    /\ CVUnchanged

AcknowledgeCriticalValue(event_id, user_id) ==
    /\ LET r == acknowledge_critical_value(critical_processor, event_id, user_id)
       IN  /\ critical_processor' = r.self
           /\ last' = [op |-> "acknowledge_critical_value", event_id |-> event_id,
                       user_id |-> user_id, before |-> critical_processor.notifications,
                       result |-> r.result]
    /\ UNCHANGED <<issued, clock>>
    /\ CVUnchanged

NextCV ==
    \/ \E policy \in PolicyCatalogue : AddPolicy(policy)
    \/ \E value_type \in {"LifeThreatening", "Urgent"} :
           CreateCriticalValueEvent("s1", value_type, "High")
    \/ ProcessNotificationQueue
    \/ \E event_id \in EventIds, user_id \in Users : AcknowledgeCriticalValue(event_id, user_id)
    \/ Tick

SpecCV == InitCV /\ [][NextCV]_vars

(***************************************************************************)
(* The critical value processor with its escalation check: a configured    *)
(* processor takes events, drains, acknowledgements and escalation checks  *)
(* while time passes.  The clock counts milliseconds.                      *)
(***************************************************************************)
MaxMinutes == 2

\* notifies u3 by pager and escalates after one and after two minutes
escalating ==
    CriticalValuePolicy("p4", {"Emergency"},
        <<NotificationRule(SpecificUser("u3"), <<"Pager">>)>>,
        <<EscalationRule("NotDelivered", "IncreaseSeverity", 1),
          EscalationRule("NotAcknowledged", "NotifyAdmin", 2),
          EscalationRule("RecipientUnavailable", "AddNotificationMethod", 0)>>, TRUE)

\* an inactive policy whose rule would escalate at once
dormant ==
    CriticalValuePolicy("p5", {"Emergency", "Urgent"}, <<>>,
        <<EscalationRule("NotAcknowledged", "AddNotificationMethod", 0)>>, FALSE)

\* the processor after add_policy of p2, of escalating and of dormant
ConfiguredProcessor ==
    LET p2 == CHOOSE p \in PolicyCatalogue : p.id = "p2"
    IN  add_policy(add_policy(add_policy(EmptyProcessor, p2), escalating), dormant)

InitEsc ==
    /\ study_status = [s \in Studies |-> "Scheduled"]
    /\ worklist_manager = EmptyWorklist
    /\ routing_engine = EmptyRouting
    /\ critical_processor = ConfiguredProcessor
    /\ issued = 0
    /\ clock = 0
    /\ backlog = 0
    /\ sent = <<>>
    /\ in_flight = <<>>
    /\ calls = 0
    /\ last = NoCall

CheckEscalations(iter) ==
    /\ LET r == check_escalations(critical_processor, clock, iter)
       IN  /\ critical_processor' = r.self
           /\ last' = [op |-> "check_escalations", now |-> clock, result |-> r.result,
                       before |-> critical_processor]
    /\ UNCHANGED <<issued, clock>>
    /\ CVUnchanged

\* time passes between two calls: to the last millisecond before the next
\* full minute, or from there to the full minute
AdvanceClock ==
    /\ clock < MaxMinutes * MsPerMinute
    /\ clock' = IF clock % MsPerMinute = 0 THEN clock + MsPerMinute - 1 ELSE clock + 1
    /\ last' = [op |-> "advance_clock"]
    /\ UNCHANGED <<critical_processor, issued>>
    /\ CVUnchanged

NextEsc ==
    \/ \E value_type \in {"Emergency", "Urgent"} :
           CreateCriticalValueEvent("s1", value_type, "High")
    \/ ProcessNotificationQueue
    \/ \E event_id \in EventIds, user_id \in Users : AcknowledgeCriticalValue(event_id, user_id)
    \/ \E iter \in IterationOrders(DOMAIN critical_processor.notifications) :
           CheckEscalations(iter)
    \/ AdvanceClock

SpecEsc == InitEsc /\ [][NextEsc]_vars

(***************************************************************************)
(* The processor draining its queue through an injected sender that may     *)
(* fail                                                                     *)
(***************************************************************************)
MaxDrains == 4

\* a processor holding the two active policies of the catalogue: an event
\* gets two records for u1 and one for u2, or one for u2
NotifyingProcessor ==
    LET p1 == CHOOSE p \in PolicyCatalogue : p.id = "p1"
        p2 == CHOOSE p \in PolicyCatalogue : p.id = "p2"
    IN  add_policy(add_policy(EmptyProcessor, p1), p2)

InitRetry ==
    /\ study_status = [s \in Studies |-> "Scheduled"]
    /\ worklist_manager = EmptyWorklist
    /\ routing_engine = EmptyRouting
    /\ critical_processor = NotifyingProcessor
    /\ issued = 0
    /\ clock = 0
    /\ backlog = 0
    /\ sent = <<>>
    /\ in_flight = <<>>
    /\ calls = 0
    /\ last = [op |-> "new", drains |-> 0]

\* create_critical_value_event; last.drains counts the drains since the
\* latest event was created
RetryCreateEvent(value_type) ==
    /\ Cardinality(DOMAIN critical_processor.events) < MaxEvents
    /\ LET r == create_critical_value_event(critical_processor, issued + 1, "s1",
                                            value_type, "High", clock)
       IN  /\ critical_processor' = r.self
           /\ issued' = r.next_id - 1
           /\ last' = [op |-> "create_critical_value_event", drains |-> 0, result |-> r.result]
    /\ UNCHANGED <<clock, sent, in_flight>>
    /\ UNCHANGED <<study_status, worklist_manager, routing_engine, backlog, calls>>

\* the sender's log after it was handed the records of queue once each
logged(log, queue) ==
    LET ids == {queue[i].id : i \in DOMAIN queue}
    IN  [id \in DOMAIN log \cup ids |->
            (IF id \in DOMAIN log THEN log[id] ELSE 0)
            + Cardinality({i \in DOMAIN queue : queue[i].id = id})]

\* process_notification_queue with a sender that answers outcomes; last.sent
\* is the sender's log before the call
RetryDrain(outcomes) ==
    /\ last.drains < MaxDrains
    /\ LET r == process_notification_queue_with(critical_processor, outcomes)
       IN  /\ critical_processor' = r.self
           /\ last' = [op |-> "process_notification_queue", drains |-> last.drains + 1,
                       outcomes |-> outcomes, before |-> critical_processor,
                       sent |-> sent, result |-> r.result]
    /\ sent' = logged(sent, critical_processor.notification_queue)
    /\ UNCHANGED in_flight
    /\ UNCHANGED <<issued, clock>>
    /\ UNCHANGED <<study_status, worklist_manager, routing_engine, backlog, calls>>

RetryAcknowledge(event_id, user_id) ==
    /\ LET r == acknowledge_critical_value(critical_processor, event_id, user_id)
       IN  /\ critical_processor' = r.self
           /\ last' = [op |-> "acknowledge_critical_value", drains |-> last.drains,
                       result |-> r.result]
    /\ UNCHANGED <<issued, clock, sent, in_flight>>
    /\ UNCHANGED <<study_status, worklist_manager, routing_engine, backlog, calls>>

NextRetry ==
    \/ \E value_type \in {"LifeThreatening", "Urgent"} : RetryCreateEvent(value_type)
    \/ \E outcomes \in [DOMAIN critical_processor.notification_queue -> SenderOutcomes] :
           RetryDrain(outcomes)
    \/ \E event_id \in DOMAIN critical_processor.events, user_id \in {"u1", "u2"} :
           RetryAcknowledge(event_id, user_id)

SpecRetry == InitRetry /\ [][NextRetry]_vars

(***************************************************************************)
(* The periodic sweep: the background task drains the queue through the    *)
(* injected sender and then checks the escalations                         *)
(***************************************************************************)
\* one run of the periodic task: process_notifications, then
\* check_escalations.  A run that directly follows another finds the
\* notifications map unmodified, so it iterates it in the same order.
\* last.before is the processor before the run, last.previous what the run
\* before returned and was answered by the sender when this run directly
\* follows it
Sweep(outcomes, iter) ==
    /\ last.op = "sweep" => iter = last.iter
    /\ LET drained == process_notification_queue_with(critical_processor, outcomes)
           checked == check_escalations(drained.self, clock, iter)
       IN  /\ critical_processor' = checked.self
           /\ last' = [op |-> "sweep", outcomes |-> outcomes, iter |-> iter,
                       before |-> critical_processor, result |-> checked.result,
                       previous |-> IF last.op = "sweep"
                                    THEN Some([outcomes |-> last.outcomes,
                                               result |-> last.result])
                                    ELSE None]
    /\ sent' = logged(sent, critical_processor.notification_queue)
    /\ UNCHANGED <<issued, clock, in_flight>>
    /\ UNCHANGED <<study_status, worklist_manager, routing_engine, backlog, calls>>

NextSweep ==
    \/ \E value_type \in {"LifeThreatening", "Urgent"} :
           CreateCriticalValueEvent("s1", value_type, "High")
    \/ \E outcomes \in [DOMAIN critical_processor.notification_queue -> SenderOutcomes],
          iter \in IterationOrders(DOMAIN critical_processor.notifications) :
           Sweep(outcomes, iter)
    \/ \E event_id \in DOMAIN critical_processor.events :
           AcknowledgeCriticalValue(event_id, "u2")

SpecSweep == InitRetry /\ [][NextSweep]_vars

(***************************************************************************)
(* The routing engine on its own: reviewers and rules are added, workloads *)
(* are updated, availabilities are set and studies are routed              *)
(***************************************************************************)
MaxRules == 2

\* r3 is a reviewer id that is never registered
Reviewers == Radiologists \cup {"r3"}

RadiologistCatalogue ==
    { Radiologist("r1", {"Neuroradiology", "General"}, 1, TRUE),
      Radiologist("r2", {"General"}, 2, TRUE) }

emergency_ct ==
    RoutingRule("emergency_ct", 100, <<ModalityEquals("CT"), IsEmergency>>,
                AssignToSpecialty("Neuroradiology"), TRUE)

routine_mr ==
    RoutingRule("routine_mr", 50, <<ModalityIn({"MR", "DR"}), IsRoutine>>,
                AssignToRadiologist("r2"), TRUE)

stat_mr ==
    RoutingRule("stat_mr", 50, <<ModalityEquals("MR"), IsEmergency>>,
                QueueInPool("stat_pool"), TRUE)

head_review ==
    RoutingRule("head_review", 100, <<DescriptionContains(<<"h", "E", "A", "d">>), TimeRange>>,
                NotifyAdmin, TRUE)

retired ==
    RoutingRule("retired", 200, <<>>, AssignToRadiologist("r3"), FALSE)

RuleCatalogue == {emergency_ct, routine_mr, stat_mr, head_review, retired}

\* the studies that are routed: s1 is a head CT, s2 an MR without description
StudyOf(study_id, status) ==
    IF study_id = "s1"
    THEN Study("s1", "CT", Some(<<"H", "e", "a", "d">>), status)
    ELSE Study(study_id, "MR", None, status)

\* the deltas update_workload is called with
Deltas == {-I32Max - 1, -2, -1, 1, 2, I32Max}

RoutingUnchanged ==
    /\ Call
    /\ UNCHANGED <<study_status, worklist_manager, critical_processor, issued, clock, backlog, sent, in_flight>>

InitRouting ==
    /\ study_status = [s \in Studies |-> "Scheduled"]
    /\ worklist_manager = EmptyWorklist
    /\ routing_engine = EmptyRouting
    /\ critical_processor = EmptyProcessor
    /\ issued = 0
    /\ clock = 0
    /\ backlog = 0
    /\ sent = <<>>
    /\ in_flight = <<>>
    /\ calls = 0
    /\ last = NoCall

AddRule(rule) ==
    /\ Len(routing_engine.rules) < MaxRules
    /\ routing_engine' = add_rule(routing_engine, rule)
    /\ last' = [op |-> "add_rule", rule |-> rule.id]
    /\ RoutingUnchanged

AddRadiologist(radiologist) ==
    /\ routing_engine' = add_radiologist(routing_engine, radiologist)
    /\ last' = [op |-> "add_radiologist", radiologist_id |-> radiologist.id]
    /\ RoutingUnchanged

\* update_workload in a build without overflow checks, and in a build with
\* them when the sum stays in range
UpdateWorkload(radiologist_id, delta) ==
    /\ routing_engine' = update_workload(routing_engine, radiologist_id, delta)
    /\ last' = [op |-> "update_workload", radiologist_id |-> radiologist_id, delta |-> delta,
                before |-> get_workload(routing_engine, radiologist_id), result |-> "returned"]
    /\ RoutingUnchanged

\* update_workload in a build with overflow checks when the sum leaves the
\* range of i32: the += panics and nothing is stored
UpdateWorkloadPanics(radiologist_id, delta) ==
    /\ radiologist_id \in DOMAIN routing_engine.workload_map
    /\ overflows(routing_engine.workload_map[radiologist_id], delta)
    /\ routing_engine' = routing_engine
    /\ last' = [op |-> "update_workload", radiologist_id |-> radiologist_id, delta |-> delta,
                before |-> get_workload(routing_engine, radiologist_id), result |-> "panicked"]
    /\ RoutingUnchanged

SetRadiologistAvailability(radiologist_id, is_available) ==
    /\ routing_engine' = set_radiologist_availability(routing_engine, radiologist_id, is_available)
    /\ last' = [op |-> "set_radiologist_availability", radiologist_id |-> radiologist_id,
                is_available |-> is_available]
    /\ RoutingUnchanged

RouteStudy(study_id, priority, iter) ==
    /\ routing_engine' = routing_engine
    /\ last' = [op |-> "route_study", study_id |-> study_id, priority |-> priority,
                result |-> route_study(routing_engine,
                                       [study |-> StudyOf(study_id, study_status[study_id]),
                                        priority |-> priority], iter)]
    /\ RoutingUnchanged

NextRouting ==
    \/ \E rule \in RuleCatalogue : AddRule(rule)
    \/ \E radiologist \in RadiologistCatalogue : AddRadiologist(radiologist)
    \/ \E radiologist_id \in Reviewers, delta \in Deltas : UpdateWorkload(radiologist_id, delta)
    \/ \E radiologist_id \in Reviewers, delta \in Deltas : UpdateWorkloadPanics(radiologist_id, delta)
    \/ \E radiologist_id \in Reviewers, is_available \in BOOLEAN :
           SetRadiologistAvailability(radiologist_id, is_available)
    \/ \E study_id \in Studies, priority \in RoutingPriority,
          iter \in IterationOrders(DOMAIN routing_engine.radiologists) :
           RouteStudy(study_id, priority, iter)

SpecRouting == InitRouting /\ [][NextRouting]_vars

(***************************************************************************)
(* The routing engine with a roster of two neuroradiologists of different   *)
(* capacity and a general reviewer, and the rule that assigns emergency CT  *)
(* studies to the specialty                                                 *)
(***************************************************************************)
SpecialtyRouting ==
    LET r1 == CHOOSE r \in RadiologistCatalogue : r.id = "r1"
        r2 == Radiologist("r2", {"Neuroradiology"}, 3, TRUE)
        r3 == Radiologist("r3", {"General"}, 2, TRUE)
    IN  add_rule(add_radiologist(add_radiologist(add_radiologist(EmptyRouting, r1), r2), r3),
                 emergency_ct)

InitSpecialty ==
    /\ study_status = [s \in Studies |-> "Scheduled"]
    /\ worklist_manager = EmptyWorklist
    /\ routing_engine = SpecialtyRouting
    /\ critical_processor = EmptyProcessor
    /\ issued = 0
    /\ clock = 0
    /\ backlog = 0
    /\ sent = <<>>
    /\ in_flight = None
    /\ calls = 0
    /\ last = NoCall

NextSpecialty ==
    \/ \E radiologist_id \in Reviewers, delta \in {-1, 1, 2} :
           UpdateWorkload(radiologist_id, delta)
    \/ \E radiologist_id \in Reviewers, is_available \in BOOLEAN :
           SetRadiologistAvailability(radiologist_id, is_available)
    \/ \E priority \in {"Emergency", "Routine"},
          iter \in IterationOrders(DOMAIN routing_engine.radiologists) :
           RouteStudy("s1", priority, iter)

SpecSpecialty == InitSpecialty /\ [][NextSpecialty]_vars

(***************************************************************************)
(* The workflow engine: a configured engine takes new studies, status      *)
(* changes of studies, and manual assignments and status changes of work   *)
(* items                                                                   *)
(***************************************************************************)
\* the routing engine after add_radiologist for both reviewers of the
\* catalogue and add_rule for three rules
ConfiguredRouting ==
    LET r1 == CHOOSE r \in RadiologistCatalogue : r.id = "r1"
        r2 == CHOOSE r \in RadiologistCatalogue : r.id = "r2"
    IN  add_rule(add_rule(add_rule(add_radiologist(add_radiologist(EmptyRouting, r1), r2),
                                   emergency_ct), routine_mr), stat_mr)

\* the same with r2 never registered, so that routine_mr names an unknown
\* reviewer
UnstaffedRouting ==
    LET r1 == CHOOSE r \in RadiologistCatalogue : r.id = "r1"
    IN  add_rule(add_rule(add_rule(add_radiologist(EmptyRouting, r1),
                                   emergency_ct), routine_mr), stat_mr)

\* what a call of the engine found: the components before it
Before == [routing_engine |-> routing_engine, worklist_manager |-> worklist_manager]

EngineUnchanged ==
    /\ Call
    /\ UNCHANGED <<study_status, critical_processor, clock, backlog, sent, in_flight>>

InitEngine ==
    /\ study_status = [s \in Studies |-> "Scheduled"]
    /\ worklist_manager = EmptyWorklist
    /\ routing_engine \in {ConfiguredRouting, UnstaffedRouting}
    /\ critical_processor = EmptyProcessor
    /\ issued = 0
    /\ clock = 0
    /\ backlog = 0
    /\ sent = <<>>
    /\ in_flight = <<>>
    /\ calls = 0
    /\ last = NoCall

ProcessNewStudy(study_id, priority, iter) ==
    /\ issued < MaxItems
    /\ LET r == process_new_study(routing_engine, worklist_manager,
                                  StudyOf(study_id, study_status[study_id]), priority, iter,
                                  issued + 1, clock)
       IN  /\ routing_engine' = r.routing_engine
           /\ worklist_manager' = r.worklist_manager
           /\ issued' = IF DOMAIN r.worklist_manager.work_items = DOMAIN worklist_manager.work_items
                        THEN issued ELSE issued + 1
           /\ last' = [op |-> "process_new_study", study_id |-> study_id, priority |-> priority,
                       routing_result |-> r.routing_result, result |-> r.result,
                       before |-> Before]
    /\ EngineUnchanged

\* current_status is what the caller says the study's status is
UpdateStudyStatus(study_id, current_status, event) ==
    /\ LET r == update_study_status(routing_engine, worklist_manager, study_id, current_status,
                                    event)
       IN  /\ routing_engine' = r.routing_engine
           /\ worklist_manager' = r.worklist_manager
           /\ last' = [op |-> "update_study_status", study_id |-> study_id,
                       current_status |-> current_status, event |-> event, result |-> r.result,
                       before |-> Before]
    /\ UNCHANGED issued
    /\ EngineUnchanged

EngineAssignWorkItem(work_item_id, radiologist_id) ==
    /\ LET r == engine_assign_work_item(routing_engine, worklist_manager, work_item_id,
                                        radiologist_id, clock)
       IN  /\ routing_engine' = r.routing_engine
           /\ worklist_manager' = r.worklist_manager
           /\ last' = [op |-> "assign_work_item", id |-> work_item_id, to |-> radiologist_id,
                       result |-> r.result, before |-> Before]
    /\ UNCHANGED issued
    /\ EngineUnchanged

EngineUpdateWorkItemStatus(work_item_id, status) ==
    /\ LET r == engine_update_work_item_status(routing_engine, worklist_manager, work_item_id,
                                               status)
       IN  /\ routing_engine' = r.routing_engine
           /\ worklist_manager' = r.worklist_manager
           /\ last' = [op |-> "update_work_item_status", id |-> work_item_id,
                       status |-> status, result |-> r.result, before |-> Before]
    /\ UNCHANGED issued
    /\ EngineUnchanged

\* routing_engine_mut().set_radiologist_availability
EngineSetAvailability(radiologist_id, is_available) ==
    /\ routing_engine' = set_radiologist_availability(routing_engine, radiologist_id, is_available)
    /\ last' = [op |-> "set_radiologist_availability", radiologist_id |-> radiologist_id,
                is_available |-> is_available]
    /\ UNCHANGED <<worklist_manager, issued>>
    /\ EngineUnchanged

NextEngine ==
    \/ \E study_id \in Studies, priority \in {"Emergency", "Routine"},
          iter \in IterationOrders(DOMAIN routing_engine.radiologists) :
           ProcessNewStudy(study_id, priority, iter)
    \/ \E study_id \in Studies, current_status \in StudyStatus, event \in StudyEvent :
           UpdateStudyStatus(study_id, current_status, event)
    \/ \E work_item_id \in ItemIds, radiologist_id \in Reviewers :
           EngineAssignWorkItem(work_item_id, radiologist_id)
    \/ \E work_item_id \in ItemIds, status \in WorkItemStatus :
           EngineUpdateWorkItemStatus(work_item_id, status)
    \/ \E radiologist_id \in Radiologists, is_available \in BOOLEAN :
           EngineSetAvailability(radiologist_id, is_available)

SpecEngine == InitEngine /\ [][NextEngine]_vars

(***************************************************************************)
(* The engine with process_notifications as the async call it is: the      *)
(* future borrows the whole engine (&mut self) from its first poll to its   *)
(* return, and is suspended at each send_notification(..).await             *)
(***************************************************************************)
\* no call holds a borrow of the engine
Idle == in_flight = None

\* a send of the suspended process_notifications is being awaited
AwaitingSend ==
    /\ IsSome(in_flight)
    /\ Unwrap(in_flight).at <= Len(Unwrap(in_flight).notifications_to_process)

InitAsync ==
    /\ study_status = [s \in Studies |-> "Scheduled"]
    /\ worklist_manager = EmptyWorklist
    /\ routing_engine = ConfiguredRouting
    /\ critical_processor = NotifyingProcessor
    /\ issued = 0
    /\ clock = 0
    /\ backlog = 0
    /\ sent = <<>>
    /\ in_flight = None
    /\ calls = 0
    /\ last = NoCall

\* the calls of the engine that read or change the worklist and routing
\* state; each takes &self or &mut self of the engine
EngineCall == Idle /\ NextEngine

\* critical_processor_mut().create_critical_value_event
EngineCreateEvent(value_type) == Idle /\ CreateCriticalValueEvent("s1", value_type, "High")

\* WorkflowEngine::process_notifications up to the first await:
\* process_notification_queue swaps the queue for an empty one
BeginProcessNotifications ==
    /\ Idle
    /\ Call
    /\ in_flight' = Some([op |-> "process_notifications",
                          notifications_to_process |-> critical_processor.notification_queue,
                          at |-> 1])
    /\ critical_processor' = [critical_processor EXCEPT !.notification_queue = <<>>]
    /\ UNCHANGED <<study_status, worklist_manager, routing_engine, issued, clock, backlog, sent, last>>

\* the awaited send_notification returns and the loop body runs for its record
SendReturns ==
    /\ AwaitingSend
    /\ LET call == Unwrap(in_flight)
           notification == call.notifications_to_process[call.at]
       IN  /\ critical_processor' = process_notification(critical_processor, notification,
                                                         send_notification(notification))
           /\ in_flight' = Some([call EXCEPT !.at = @ + 1])
    /\ UNCHANGED <<study_status, worklist_manager, routing_engine, issued, clock, backlog, sent, calls, last>>

\* the loop is over: process_notifications returns Ok(()) and gives the
\* engine back
ProcessNotificationsReturns ==
    /\ IsSome(in_flight)
    /\ ~ AwaitingSend
    /\ in_flight' = None
    /\ last' = [op |-> "process_notifications", result |-> Ok(Unit)]
    /\ UNCHANGED <<study_status, worklist_manager, routing_engine, critical_processor, issued, clock, backlog, sent, calls>>

NextAsync ==
    \/ EngineCall
    \/ \E value_type \in {"LifeThreatening", "Urgent"} : EngineCreateEvent(value_type)
    \/ BeginProcessNotifications
    \/ SendReturns
    \/ ProcessNotificationsReturns

SpecAsync == InitAsync /\ [][NextAsync]_vars

(***************************************************************************)
(* Claims about the state machine (SpecSM)                                 *)
(***************************************************************************)
\* the target the specification tabulates for a pair, None when it lists none
TabulatedTarget(from, event) ==
    CASE from = "Scheduled" /\ event = "Started" -> Some("InProgress")
      [] from = "InProgress" /\ event = "Completed" -> Some("Completed")
      [] from = "Completed" /\ event = "PreliminaryReport" -> Some("Preliminary")
      [] from = "Preliminary" /\ event = "FinalReport" -> Some("Final")
      [] from = "Scheduled" /\ event = "Canceled" -> Some("Canceled")
      [] from = "InProgress" /\ event = "Canceled" -> Some("Canceled")
      [] OTHER -> None

\* C1: for every (state, event) pair transition returns exactly the tabulated
\* target for the six table entries and fails with InvalidTransition for every
\* other pair.
C1_TransitionTable ==
    last.op = "transition" =>
        IF IsSome(TabulatedTarget(last.from, last.event))
        THEN last.result = Ok(Unwrap(TabulatedTarget(last.from, last.event)))
        ELSE last.result = Err("InvalidStateTransition")

C1_Witness ==
    /\ last.op = "transition"
    /\ last.from = "Preliminary" /\ last.event = "FinalReport"
    /\ last.result.ok /\ study_status[last.study] = "Final"

\* C2: Final and Canceled are terminal: for every event can_transition is false
\* and transition fails there, so the study's status stays what it was.
C2_TerminalStates ==
    (last.op = "transition" /\ last.from \in {"Final", "Canceled"}) =>
        /\ ~last.can
        /\ ~last.result.ok
        /\ study_status[last.study] = last.from

C2_Witness ==
    /\ last.op = "transition"
    /\ last.from = "Canceled" /\ last.event = "Scheduled"
    /\ ~last.result.ok /\ study_status[last.study] = "Canceled"

(***************************************************************************)
(* Claims about the worklist manager (SpecWL, SpecPage)                    *)
(***************************************************************************)
\* the rank the specification gives a priority: Critical > High > Normal > Low
ClinicalRank(p) ==
    CASE p = "Critical" -> 3
      [] p = "High" -> 2
      [] p = "Normal" -> 1
      [] p = "Low" -> 0

\* no two work items of the manager share both priority and assignment time
DistinctSortKeys ==
    \A i, j \in DOMAIN worklist_manager.work_items :
        LET a == worklist_manager.work_items[i]
            b == worklist_manager.work_items[j]
        IN  (a.priority = b.priority /\ a.assigned_at = b.assigned_at) => i = j

\* a is listed before b: higher clinical rank first, earlier assignment first
\* within one priority
ListedBefore(a, b) ==
    \/ ClinicalRank(a.priority) > ClinicalRank(b.priority)
    \/ a.priority = b.priority /\ a.assigned_at < b.assigned_at

\* C3: for work items with distinct (priority, assignment time) pairs,
\* query_worklist returns them with Critical items first, then High, Normal,
\* Low, and within one priority by assignment time ascending.
C3_CriticalFirst ==
    DistinctSortKeys =>
        \A filter \in QueryFilters :
            \A values \in IterationOrders(DOMAIN worklist_manager.work_items) :
                LET result == query_worklist(worklist_manager, filter, values)
                IN  \A i, j \in DOMAIN result : i < j => ListedBefore(result[i], result[j])

\* the item of the latest successful assign_work_item call is counted n times
\* in reviewer r's worklist, whatever the order the map iterates in
ListedTimes(r, id, n) ==
    \A values \in IterationOrders(DOMAIN worklist_manager.work_items) :
        Count(Ids(get_radiologist_worklist(worklist_manager, r, values)), id) = n

Reassigned ==
    /\ last.op = "assign_work_item"
    /\ last.result.ok
    /\ IsSome(last.from)

\* the number of work items whose reviewer is r
ItemsOf(r) ==
    Cardinality({id \in DOMAIN worklist_manager.work_items :
                     worklist_manager.work_items[id].radiologist_id = Some(r)})

\* C10 as stated: after a work item of reviewer A is reassigned to reviewer B
\* (also at the end of a chain of reassignments), B's worklist holds it exactly
\* once and no other reviewer's worklist holds it.
C10_ListedOnceByNewReviewer ==
    Reassigned =>
        \A r \in Radiologists : ListedTimes(r, last.id, IF r = last.to THEN 1 ELSE 0)

\* C10 amended: get_radiologist_worklist returns one page of DefaultLimit
\* items.  After a reassignment to B no other reviewer's worklist holds the
\* item, B's holds it at most once, and exactly once when B has no more than
\* DefaultLimit work items.
C10_ListedOnceWithinPage ==
    Reassigned =>
        \A r \in Radiologists :
            IF r # last.to THEN ListedTimes(r, last.id, 0)
            ELSE IF ItemsOf(r) <= DefaultLimit THEN ListedTimes(r, last.id, 1)
            ELSE \A values \in IterationOrders(DOMAIN worklist_manager.work_items) :
                     Count(Ids(get_radiologist_worklist(worklist_manager, r, values)), last.id) <= 1

C10_Witness ==
    /\ Reassigned
    /\ last.from = Some("r1") /\ last.to = "r2"
    /\ ListedTimes("r2", last.id, 1)
    /\ ListedTimes("r1", last.id, 0)
    /\ worklist_manager.radiologist_worklists["r1"] = <<>>
    /\ calls = 3

(***************************************************************************)
(* Claims about the critical value processor (SpecCV)                      *)
(***************************************************************************)
\* the stored records, as (event id, index) pairs
StoredRecords(notifications) ==
    UNION {{<<e, i>> : i \in DOMAIN notifications[e]} : e \in DOMAIN notifications}

\* C4: a stored notification record whose status is Acknowledged keeps that
\* status in every later step, whichever of create, drain and acknowledge
\* is called
C4_AcknowledgedNeverReverts ==
    [][\A r \in StoredRecords(critical_processor.notifications) :
           critical_processor.notifications[r[1]][r[2]].status = "Acknowledged"
           => /\ r \in StoredRecords(critical_processor'.notifications)
              /\ critical_processor'.notifications[r[1]][r[2]].status = "Acknowledged"]_vars

\* the indices of the records of event_id addressed to user_id that are
\* Pending or Sent
Acknowledgeable(notifications, event_id, user_id) ==
    IF event_id \in DOMAIN notifications
    THEN {i \in DOMAIN notifications[event_id] :
              /\ notifications[event_id][i].recipient_id = user_id
              /\ notifications[event_id][i].status \in {"Pending", "Sent"}}
    ELSE {}

\* C5: acknowledge_critical_value marks the first Pending or Sent record of
\* the event addressed to the user and nothing else, and fails with NotFound,
\* changing nothing, when there is no such record
C5_AcknowledgeFirstPendingOrSent ==
    last.op = "acknowledge_critical_value" =>
        LET open == Acknowledgeable(last.before, last.event_id, last.user_id)
            first == CHOOSE i \in open : \A j \in open : i <= j
        IN  IF open # {}
            THEN /\ last.result = Ok(Unit)
                 /\ critical_processor.notifications =
                        [last.before EXCEPT ![last.event_id][first].status = "Acknowledged"]
            ELSE /\ last.result = Err("NotFound")
                 /\ critical_processor.notifications = last.before

(***************************************************************************)
(* Claims about the routing engine (SpecRouting)                           *)
(***************************************************************************)
\* C9: in every reachable state get_workload returns a value >= 0 for every
\* reviewer, whatever update_workload calls were made
C9_WorkloadNeverNegative ==
    \A radiologist_id \in Reviewers : get_workload(routing_engine, radiologist_id) >= 0

\* an update_workload call has just decremented a positive workload past zero
C9_Witness ==
    /\ last.op = "update_workload"
    /\ last.result = "returned"
    /\ last.before > 0
    /\ last.delta < 0
    /\ last.before + last.delta < 0
    /\ get_workload(routing_engine, last.radiologist_id) = 0

(***************************************************************************)
(* Claims about the workflow engine (SpecEngine)                           *)
(***************************************************************************)
\* the ids of the work items that the last call created
Created == DOMAIN worklist_manager.work_items \ DOMAIN last.before.worklist_manager.work_items

\* C6: when process_new_study returns Ok it has created exactly one work
\* item, for the study, whose reviewer is the one routing chose (none when
\* routing chose none), and has left the other work items as they were
C6_OneWorkItemPerRoutedStudy ==
    (last.op = "process_new_study" /\ last.result.ok) =>
        /\ Cardinality(Created) = 1
        /\ \A id \in Created :
               /\ worklist_manager.work_items[id].study_id = last.study_id
               /\ worklist_manager.work_items[id].radiologist_id =
                      Unwrap(last.routing_result).assigned_to
        /\ \A id \in DOMAIN last.before.worklist_manager.work_items :
               /\ id \in DOMAIN worklist_manager.work_items
               /\ worklist_manager.work_items[id] = last.before.worklist_manager.work_items[id]

\* C7: when process_new_study returns Ok, the workload of the reviewer it
\* assigned the study to is one more than before and every other reviewer's
\* workload is what it was; when it assigned nobody no workload has changed
C7_AssignmentAddsOne ==
    (last.op = "process_new_study" /\ last.result.ok) =>
        \A radiologist_id \in Reviewers :
            get_workload(routing_engine, radiologist_id) =
                get_workload(last.before.routing_engine, radiologist_id)
                + (IF Unwrap(last.routing_result).assigned_to = Some(radiologist_id) THEN 1 ELSE 0)

\* process_new_study has just assigned a study to a reviewer who already had
\* work, while another reviewer is registered
C7_Witness ==
    /\ last.op = "process_new_study"
    /\ last.result.ok
    /\ \E radiologist_id \in Reviewers :
           /\ Unwrap(last.routing_result).assigned_to = Some(radiologist_id)
           /\ get_workload(last.before.routing_engine, radiologist_id) >= 1
           /\ get_workload(routing_engine, radiologist_id) >= 2
           /\ DOMAIN routing_engine.workload_map # {radiologist_id}
    /\ Created # {}

\* the work items that were linked to the study of the last call when it began
LinkedBefore == get_study_work_items(last.before.worklist_manager, last.study_id)

\* how many of them were assigned to radiologist_id
LinkedTo(radiologist_id) ==
    Cardinality({i \in DOMAIN LinkedBefore :
                    LinkedBefore[i].radiologist_id = Some(radiologist_id)})

EscalationSources(self) ==
    UNION {{<<e, p, k>> : k \in DOMAIN self.policies[p].escalation_rules} :
           <<e, p>> \in {x \in (DOMAIN self.events \cap DOMAIN self.notifications)
                                \X (DOMAIN self.policies) :
                            /\ self.policies[x[2]].is_active
                            /\ self.events[x[1]].value_type \in self.policies[x[2]].value_types}}

SourceRule(self, src) == self.policies[src[2]].escalation_rules[src[3]]

\* C11: for an event whose only notification record is Pending and a rule of
\* a matching active policy with condition NotDelivered or NotAcknowledged
\* and threshold T minutes, check_escalations returns the rule's action when
\* T minutes or more have passed since detection, and does not return it (no
\* other rule having the same action) when one millisecond less has passed
C11_EscalationAtThreshold ==
    last.op = "check_escalations" =>
        \A src \in EscalationSources(last.before) :
            LET self == last.before
                rule == SourceRule(self, src)
                elapsed == last.now - self.events[src[1]].detected_at
                threshold == rule.trigger_after_minutes * MsPerMinute
                alone == \A other \in EscalationSources(self) \ {src} :
                             SourceRule(self, other).action # rule.action
            IN  (/\ Len(self.notifications[src[1]]) = 1
                 /\ self.notifications[src[1]][1].status = "Pending"
                 /\ rule.condition \in {"NotDelivered", "NotAcknowledged"}) =>
                    /\ elapsed >= threshold => rule.action \in Range(last.result.value)
                    /\ (elapsed = threshold - 1 /\ alone) =>
                           rule.action \notin Range(last.result.value)

\* check_escalations has just run one millisecond before the second minute
\* of an event whose only record is Pending: the one-minute rule has fired
\* and the two-minute rule has not
C11_Witness ==
    /\ last.op = "check_escalations"
    /\ \E e \in DOMAIN last.before.events :
           /\ last.now - last.before.events[e].detected_at = 2 * MsPerMinute - 1
           /\ Len(last.before.notifications[e]) = 1
           /\ last.before.notifications[e][1].status = "Pending"
    /\ last.result.value = <<"IncreaseSeverity">>

(***************************************************************************)
(* More claims about the routing engine (SpecRouting)                      *)
(***************************************************************************)
\* the request route_study gets for a study and a priority
Request(study_id, priority) ==
    [study |-> StudyOf(study_id, study_status[study_id]), priority |-> priority]

\* C12: with the same rules, reviewers, availabilities and workloads, two
\* route_study calls for the same study and priority return the same
\* reviewer, queue name and rule, whatever order the reviewer map iterates in
C12_RoutingDeterministic ==
    \A study_id \in Studies, priority \in RoutingPriority :
        \A iter1, iter2 \in IterationOrders(DOMAIN routing_engine.radiologists) :
            route_study(routing_engine, Request(study_id, priority), iter1) =
                route_study(routing_engine, Request(study_id, priority), iter2)

\* the indices of the active rules whose conditions all hold for a request
Matching(self, request) ==
    {i \in DOMAIN self.rules :
        /\ self.rules[i].is_active
        /\ evaluate_conditions(self.rules[i].conditions, request.study, request.priority)}

\* the reviewers that are available, hold the specialty and are below their
\* maximum workload
Eligible(self, specialty) ==
    {id \in DOMAIN self.radiologists :
        /\ self.radiologists[id].is_available
        /\ specialty \in self.radiologists[id].specialties
        /\ get_workload(self, id) < self.radiologists[id].max_workload}

\* C13: when no active rule matches, route_study succeeds without an applied
\* rule; with no eligible General reviewer it assigns nobody and names the
\* queue "general_pool", otherwise it assigns an eligible General reviewer
\* and names no queue
C13_DefaultRouting ==
    \A study_id \in Studies, priority \in RoutingPriority,
       iter \in IterationOrders(DOMAIN routing_engine.radiologists) :
        LET request == Request(study_id, priority)
            r == route_study(routing_engine, request, iter)
        IN  Matching(routing_engine, request) = {} =>
                /\ r.ok
                /\ r.value.rule_applied = None
                /\ IF Eligible(routing_engine, "General") = {}
                   THEN r.value.assigned_to = None /\ r.value.queue_name = Some("general_pool")
                   ELSE /\ IsSome(r.value.assigned_to)
                        /\ Unwrap(r.value.assigned_to) \in Eligible(routing_engine, "General")
                        /\ r.value.queue_name = None

\* route_study has just sent a study to the general pool although a General
\* reviewer is registered
C13_Witness ==
    /\ last.op = "route_study"
    /\ last.result.ok
    /\ last.result.value.queue_name = Some("general_pool")
    /\ last.result.value.rule_applied = None
    /\ \E id \in DOMAIN routing_engine.radiologists :
           "General" \in routing_engine.radiologists[id].specialties

\* the rule of the catalogue with the given id
RuleOf(id) == CHOOSE rule \in RuleCatalogue : rule.id = id

\* rules with rule put behind the rules of the same or a higher priority and
\* in front of the rules of a lower priority
InsertedByPriority(rules, rule) ==
    LET k == Cardinality({i \in DOMAIN rules : rules[i].priority >= rule.priority})
    IN  SubSeq(rules, 1, k) \o <<rule>> \o SubSeq(rules, k + 1, Len(rules))

\* what the result of route_study shows when the rule at index first was applied
AppliedRule(self, first, r) ==
    LET rule == self.rules[first]
    IN  IF r.ok
        THEN /\ r.value.rule_applied = Some(rule.id)
             /\ CASE rule.action.kind = "AssignToRadiologist" ->
                         r.value.assigned_to = Some(rule.action.id) /\ r.value.queue_name = None
                  [] rule.action.kind = "AssignToSpecialty" ->
                         /\ r.value.queue_name = None
                         /\ IF Eligible(self, rule.action.specialty) = {}
                            THEN r.value.assigned_to = None
                            ELSE /\ IsSome(r.value.assigned_to)
                                 /\ Unwrap(r.value.assigned_to) \in
                                        Eligible(self, rule.action.specialty)
                  [] rule.action.kind = "QueueInPool" ->
                         /\ r.value.assigned_to = None
                         /\ r.value.queue_name = Some(rule.action.queue_name)
                  [] rule.action.kind = "NotifyAdmin" ->
                         r.value.assigned_to = None /\ r.value.queue_name = Some("admin_review")
        ELSE rule.action.kind = "AssignToRadiologist"

\* C14: add_rule keeps the rules in descending priority with rules of equal
\* priority in the order they were added, and route_study applies the action
\* of the first rule of that list that is active and whose conditions all
\* hold, and of no other rule
C14_FirstMatchingRule ==
    [][/\ last'.op = "add_rule" =>
              routing_engine'.rules = InsertedByPriority(routing_engine.rules, RuleOf(last'.rule))
       /\ last'.op = "route_study" =>
              LET request == Request(last'.study_id, last'.priority)
                  matching == Matching(routing_engine, request)
              IN  matching # {} =>
                      AppliedRule(routing_engine,
                                  CHOOSE i \in matching : \A j \in matching : i <= j,
                                  last'.result)]_vars

\* route_study has just applied the earlier added of two different rules of
\* equal priority that both match
C14_Witness ==
    /\ last.op = "route_study"
    /\ Len(routing_engine.rules) >= 2
    /\ routing_engine.rules[1].priority = routing_engine.rules[2].priority
    /\ routing_engine.rules[1].id # routing_engine.rules[2].id
    /\ {1, 2} \subseteq Matching(routing_engine, Request(last.study_id, last.priority))
    /\ last.result.ok
    /\ last.result.value.rule_applied = Some(routing_engine.rules[1].id)

(***************************************************************************)
(* More claims about the workflow engine (SpecEngine)                      *)
(***************************************************************************)
\* the first rule that matched the request of the last process_new_study
FirstMatching ==
    LET matching == Matching(last.before.routing_engine, Request(last.study_id, last.priority))
    IN  IF matching = {} THEN None
        ELSE Some(last.before.routing_engine.rules[CHOOSE i \in matching :
                                                       \A j \in matching : i <= j])

\* the first matching rule assigns to a reviewer who is unknown or unavailable
NamesUnreachableReviewer ==
    /\ IsSome(FirstMatching)
    /\ Unwrap(FirstMatching).action.kind = "AssignToRadiologist"
    /\ LET id == Unwrap(FirstMatching).action.id
           radiologists == last.before.routing_engine.radiologists
       IN  id \in DOMAIN radiologists => ~ radiologists[id].is_available

\* C15: when the first matching rule assigns to a reviewer who is unknown or
\* unavailable, route_study fails with RoutingError and process_new_study
\* returns that error with the work items and the workloads as they were
C15_NoFallback ==
    (last.op = "process_new_study" /\ NamesUnreachableReviewer) =>
        /\ \A iter \in IterationOrders(DOMAIN last.before.routing_engine.radiologists) :
               route_study(last.before.routing_engine, Request(last.study_id, last.priority),
                           iter) = Err("RoutingError")
        /\ last.result = Err("RoutingError")
        /\ worklist_manager = last.before.worklist_manager
        /\ routing_engine = last.before.routing_engine

\* process_new_study has just failed on a rule that names an unavailable
\* reviewer while an eligible General reviewer was there for default routing
C15_Witness ==
    /\ last.op = "process_new_study"
    /\ NamesUnreachableReviewer
    /\ Unwrap(FirstMatching).action.id \in DOMAIN routing_engine.radiologists
    /\ Eligible(routing_engine, "General") # {}
    /\ last.result = Err("RoutingError")
    /\ DOMAIN worklist_manager.work_items # {}

\* C16: no process_new_study and no assign_work_item raises the workload of
\* a reviewer above that reviewer's max_workload
C16_AssignmentWithinMax ==
    (last.op \in {"process_new_study", "assign_work_item"} /\ last.result.ok) =>
        \A id \in DOMAIN routing_engine.radiologists :
            get_workload(routing_engine, id) > get_workload(last.before.routing_engine, id)
                => get_workload(routing_engine, id) <= routing_engine.radiologists[id].max_workload

\* ---------------------------------------------------------------------------
\* C17 (SpecWL)
\* ---------------------------------------------------------------------------

\* the places <<reviewer, position>> at which the reviewers' indexes list id
IndexEntries(id) ==
    UNION { { <<r, i>> : i \in { j \in DOMAIN worklist_manager.radiologist_worklists[r] :
                                     worklist_manager.radiologist_worklists[r][j] = id } } :
            r \in DOMAIN worklist_manager.radiologist_worklists }

\* C17: in every state between two calls a work item is listed in at most one
\* reviewer's index and at most once there; after a successful
\* assign_work_item the item is listed by the new reviewer exactly once and by
\* nobody else, so it is never in both the old and the new index or in neither.
C17_IndexedByAtMostOneReviewer ==
    /\ \A id \in 1 .. issued : Cardinality(IndexEntries(id)) <= 1
    /\ (last.op = "assign_work_item" /\ last.result.ok) =>
           /\ Cardinality(IndexEntries(last.id)) = 1
           /\ \A e \in IndexEntries(last.id) : e[1] = last.to

C17_Witness ==
    /\ last.op = "assign_work_item" /\ last.result.ok
    /\ last.from = Some("r2") /\ last.to = "r1"
    /\ IndexEntries(last.id) = {<<"r1", 2>>}
    /\ "r2" \in DOMAIN worklist_manager.radiologist_worklists
    /\ Len(worklist_manager.radiologist_worklists["r2"]) = 0

\* ---------------------------------------------------------------------------
\* C18, C19 (SpecRetry)
\* ---------------------------------------------------------------------------

\* the stored record whose id is id
Stored(self, id) ==
    LET r == CHOOSE r \in StoredRecords(self.notifications) :
                 self.notifications[r[1]][r[2]].id = id
    IN  self.notifications[r[1]][r[2]]

\* the ids of the records in the queue
QueuedIds(self) == {self.notification_queue[i].id : i \in DOMAIN self.notification_queue}

\* the latest call was a drain
Drained == last.op = "process_notification_queue"

Obligations(self, value_type) ==
    UNION { UNION { { <<k, j, m>> : m \in DOMAIN self.policies[k].notification_rules[j].methods } :
                    j \in DOMAIN self.policies[k].notification_rules } :
            k \in { k \in DOMAIN self.policies :
                        /\ self.policies[k].is_active
                        /\ value_type \in self.policies[k].value_types } }

\* C20: right after create_critical_value_event the event's stored records
\* are as many as the (recipient, channel) pairs of the notification rules of
\* the active policies that hold the event's type (none when there is no such
\* policy), and each of them is Pending, has retry count 0 and is in the queue.
C20_OneRecordPerRecipientAndChannel ==
    last.op = "create_critical_value_event" =>
        LET event == last.result.value
            records == IF event.id \in DOMAIN critical_processor.notifications
                       THEN critical_processor.notifications[event.id] ELSE <<>>
        IN  /\ Len(records) = Cardinality(Obligations(critical_processor, event.value_type))
            /\ \A i \in DOMAIN records :
                   /\ records[i].status = "Pending"
                   /\ records[i].retry_count = 0
                   /\ \E q \in DOMAIN critical_processor.notification_queue :
                          critical_processor.notification_queue[q] = records[i]

\* ---------------------------------------------------------------------------
\* C21 (SpecAsync)
\* ---------------------------------------------------------------------------

\* C21: while process_notifications is waiting on a send, the calls on the
\* worklist and routing state (process_new_study, update_study_status,
\* assign_work_item) can still be made, as long as the run may make a call.
C21_SendBlocksNoEngineCall ==
    (AwaitingSend /\ calls < MaxCalls) => ENABLED EngineCall

\* ---------------------------------------------------------------------------
\* C22 (SpecWL)
\* ---------------------------------------------------------------------------

\* C22: in a reviewer's worklist two items of one priority come in the order
\* of their assignment times, and any two queries of the worklist, whatever
\* order the item table iterates in when each is made, return them in the
\* same relative order.
C22_FifoWithinPriorityIsStable ==
    \A r \in Radiologists :
        \A values \in IterationOrders(DOMAIN worklist_manager.work_items),
           later \in IterationOrders(DOMAIN worklist_manager.work_items) :
            LET first == get_radiologist_worklist(worklist_manager, r, values)
                second == get_radiologist_worklist(worklist_manager, r, later)
            IN  \A i, j \in DOMAIN first :
                    (i < j /\ first[i].priority = first[j].priority) =>
                        /\ first[i].assigned_at <= first[j].assigned_at
                        /\ \A k, l \in DOMAIN second :
                               (second[k].id = first[i].id /\ second[l].id = first[j].id) => k < l

\* ---------------------------------------------------------------------------
\* C23 (SpecEngine)
\* ---------------------------------------------------------------------------

\* C23: update_study_status called with a (current status, event) pair
\* that is not in the transition table returns the invalid-transition error
\* and leaves the work items, the reviewers' indexes and the workloads as
\* they were.
C23_InvalidTransitionChangesNothing ==
    (last.op = "update_study_status" /\ ~ can_transition(last.current_status, last.event)) =>
        /\ last.result = Err("InvalidStateTransition")
        /\ worklist_manager.work_items = last.before.worklist_manager.work_items
        /\ worklist_manager.radiologist_worklists = last.before.worklist_manager.radiologist_worklists
        /\ routing_engine.workload_map = last.before.routing_engine.workload_map

\* a Completed event rejected for a Scheduled study that has an assigned,
\* pending work item counted in its reviewer's workload
C23_Witness ==
    /\ last.op = "update_study_status"
    /\ last.current_status = "Scheduled" /\ last.event = "Completed"
    /\ ~ last.result.ok
    /\ \E id \in DOMAIN worklist_manager.work_items :
           LET item == worklist_manager.work_items[id]
           IN  /\ item.study_id = last.study_id
               /\ item.status = "Pending"
               /\ IsSome(item.radiologist_id)
               /\ get_workload(routing_engine, Unwrap(item.radiologist_id)) > 0

\* ---------------------------------------------------------------------------
\* C24 (SpecWL)
\* ---------------------------------------------------------------------------

\* the ids the reviewers' and the studies' indexes of a manager hold
Indexed(self) ==
    UNION {Range(self.radiologist_worklists[r]) : r \in DOMAIN self.radiologist_worklists}
    \cup UNION {Range(self.study_work_items[st]) : st \in DOMAIN self.study_work_items}

\* C24: a remove_work_item call that names no existing item returns NotFound
\* and changes nothing; one that names an existing item returns Ok, deletes
\* that item and no other from the item table, and leaves no reviewer's and
\* no study's index holding it, so that every index entry is an existing item.
C24_RemoveWorkItem ==
    [][(last'.op = "remove_work_item" /\ calls' # calls) =>
          IF last'.id \in DOMAIN worklist_manager.work_items
          THEN /\ last'.result = Ok(Unit)
               /\ DOMAIN worklist_manager'.work_items =
                      DOMAIN worklist_manager.work_items \ {last'.id}
               /\ \A id \in DOMAIN worklist_manager'.work_items :
                      worklist_manager'.work_items[id] = worklist_manager.work_items[id]
               /\ last'.id \notin Indexed(worklist_manager')
               /\ Indexed(worklist_manager') \subseteq DOMAIN worklist_manager'.work_items
          ELSE /\ last'.result = Err("NotFound")
               /\ worklist_manager' = worklist_manager]_vars

\* an assigned item was removed while another item of the same reviewer and
\* study stays
C24_Witness ==
    /\ last.op = "remove_work_item" /\ last.result.ok
    /\ last.id = 1
    /\ 2 \in DOMAIN worklist_manager.work_items
    /\ worklist_manager.radiologist_worklists = ("r1" :> <<2>>)
    /\ worklist_manager.study_work_items = ("s1" :> <<2>>)

\* ---------------------------------------------------------------------------
\* C25 (SpecEngine)
\* ---------------------------------------------------------------------------

\* C25: the system load of get_system_overview is 1.0 when no reviewer is
\* available, and otherwise the sum of the available reviewers' workloads,
\* each counted once, divided by the sum of their maximum workloads.
C25_SystemLoad ==
    LET load == get_system_overview(routing_engine, worklist_manager, critical_processor).system_load
        available == get_available_radiologists(routing_engine)
        workloads == sum([id \in available |-> get_workload(routing_engine, id)])
        capacity == sum([id \in available |-> routing_engine.radiologists[id].max_workload])
    IN  IF available = {} THEN load.num = load.den
        ELSE load.num * capacity = workloads * load.den

\* ---------------------------------------------------------------------------
\* C26 (SpecPage)
\* ---------------------------------------------------------------------------

\* the ids of the work items of a reviewer, of all reviewers when none is given
ItemsCounted(radiologist_id) ==
    {id \in DOMAIN worklist_manager.work_items :
        IsSome(radiologist_id) => worklist_manager.work_items[id].radiologist_id = radiologist_id}

\* C26: get_worklist_stats counts over all the work items of the reviewer
\* (over all items when no reviewer is given), however many they are: total
\* is their number, pending, in-progress and completed are the numbers in
\* those statuses, the per-priority counts add up to total, and overdue is
\* the number of those not Completed whose due time has passed.
C26_StatsCountAllItems ==
    \A radiologist_id \in {None} \cup {Some(r) : r \in Radiologists} :
        \A values \in IterationOrders(DOMAIN worklist_manager.work_items) :
            LET stats == get_worklist_stats(worklist_manager, radiologist_id, values, clock)
                counted == ItemsCounted(radiologist_id)
                in_status(status) ==
                    Cardinality({id \in counted : worklist_manager.work_items[id].status = status})
            IN  /\ stats.total_items = Cardinality(counted)
                /\ stats.pending_items = in_status("Pending")
                /\ stats.in_progress_items = in_status("InProgress")
                /\ stats.completed_items = in_status("Completed")
                /\ sum(stats.workload_by_priority) = stats.total_items
                /\ stats.overdue_items =
                       Cardinality({id \in counted :
                           LET item == worklist_manager.work_items[id]
                           IN  /\ IsSome(item.due_at)
                               /\ clock > Unwrap(item.due_at)
                               /\ item.status # "Completed"})

\* ---------------------------------------------------------------------------
\* C27 (SpecSpecialty)
\* ---------------------------------------------------------------------------

\* the reviewers that are available and hold the specialty
Holders(self, specialty) ==
    {id \in DOMAIN self.radiologists :
        /\ self.radiologists[id].is_available
        /\ specialty \in self.radiologists[id].specialties}

\* the latest call was a route_study whose first matching rule assigns to a
\* specialty
RoutedBySpecialty ==
    /\ last.op = "route_study"
    /\ LET matching == Matching(routing_engine, Request(last.study_id, last.priority))
       IN  /\ matching # {}
           /\ routing_engine.rules[CHOOSE i \in matching : \A j \in matching : i <= j].action.kind
                  = "AssignToSpecialty"

\* the specialty of that rule
RoutedSpecialty ==
    LET matching == Matching(routing_engine, Request(last.study_id, last.priority))
    IN  routing_engine.rules[CHOOSE i \in matching : \A j \in matching : i <= j].action.specialty

\* route_study succeeded and chose a reviewer of least workload among
\* candidates, or nobody when there is no candidate
ChoseLeastLoaded(candidates) ==
    /\ last.result.ok
    /\ IF candidates = {} THEN last.result.value.assigned_to = None
       ELSE /\ IsSome(last.result.value.assigned_to)
            /\ Unwrap(last.result.value.assigned_to) \in candidates
            /\ \A id \in candidates :
                   get_workload(routing_engine, Unwrap(last.result.value.assigned_to))
                       <= get_workload(routing_engine, id)

\* C27 as stated: a rule that assigns to a specialty selects a reviewer who
\* is available, holds the specialty and has the least workload of all the
\* available reviewers holding it; when there is none it assigns nobody and
\* route_study still succeeds.
C27_LeastLoadedHolder ==
    RoutedBySpecialty => ChoseLeastLoaded(Holders(routing_engine, RoutedSpecialty))

\* C27 amended: the reviewer selected is available, holds the specialty, is
\* below the maximum workload and has the least workload of the reviewers of
\* which all three are true; when there is none it assigns nobody and
\* route_study still succeeds.
C27_LeastLoadedBelowMax ==
    RoutedBySpecialty => ChoseLeastLoaded(Eligible(routing_engine, RoutedSpecialty))

\* r2 was chosen with workload 2 while r1, available and a holder of the
\* specialty, is at its maximum with workload 1
C27_Witness ==
    /\ RoutedBySpecialty
    /\ last.result.ok
    /\ last.result.value.assigned_to = Some("r2")
    /\ get_workload(routing_engine, "r1") = 1
    /\ get_workload(routing_engine, "r2") = 2
    /\ routing_engine.radiologists["r1"].is_available

\* ---------------------------------------------------------------------------
\* C28 (SpecRouting)
\* ---------------------------------------------------------------------------

\* C28: a result that route_study returns, from any rule or from default
\* routing, never names both a reviewer and a queue; when the rule applied
\* puts the study in a queue the result names that queue and no reviewer,
\* and when it asks for administrative review the result names the queue
\* "admin_review" and no reviewer.
C28_ReviewerOrQueue ==
    \A study_id \in Studies, priority \in RoutingPriority,
       iter \in IterationOrders(DOMAIN routing_engine.radiologists) :
        LET request == Request(study_id, priority)
            r == route_study(routing_engine, request, iter)
            matching == Matching(routing_engine, request)
            action == routing_engine.rules[CHOOSE i \in matching : \A j \in matching : i <= j].action
        IN  r.ok =>
                /\ ~ (IsSome(r.value.assigned_to) /\ IsSome(r.value.queue_name))
                /\ (matching # {} /\ action.kind = "QueueInPool") =>
                       r.value.assigned_to = None /\ r.value.queue_name = Some(action.queue_name)
                /\ (matching # {} /\ action.kind = "NotifyAdmin") =>
                       r.value.assigned_to = None /\ r.value.queue_name = Some("admin_review")

\* a study was flagged for administrative review while a General reviewer
\* with spare capacity was registered
C28_Witness ==
    /\ last.op = "route_study"
    /\ last.result.ok
    /\ last.result.value.rule_applied = Some("head_review")
    /\ last.result.value.assigned_to = None
    /\ last.result.value.queue_name = Some("admin_review")
    /\ Eligible(routing_engine, "General") # {}

\* ---------------------------------------------------------------------------
\* C29 (SpecRetry)
\* ---------------------------------------------------------------------------

C30_CollaboratorConditionsNeverEscalate ==
    last.op = "check_escalations" =>
        \A src \in EscalationSources(last.before) :
            LET self == last.before
                rule == SourceRule(self, src)
                alone == \A other \in EscalationSources(self) \ {src} :
                             SourceRule(self, other).action # rule.action
            IN  (rule.condition \in {"NoResponse", "RecipientUnavailable"} /\ alone) =>
                    rule.action \notin Range(last.result.value)

\* ---------------------------------------------------------------------------
\* C31 (SpecEsc)
\* ---------------------------------------------------------------------------

\* C31: check_escalations only reports actions: after it the processor's
\* events, stored records (their number, statuses and retry counts) and
\* queue are what they were before the call
C31_CheckEscalationsOnlyReports ==
    last.op = "check_escalations" =>
        /\ critical_processor.events = last.before.events
        /\ critical_processor.notifications = last.before.notifications
        /\ critical_processor.notification_queue = last.before.notification_queue
        /\ critical_processor = last.before

\* check_escalations has returned an action while a record was waiting in
\* the queue
C31_Witness ==
    /\ last.op = "check_escalations"
    /\ last.result.value # <<>>
    /\ last.before.notification_queue # <<>>
    /\ StoredRecords(last.before.notifications) # {}

\* ---------------------------------------------------------------------------
\* C32 (SpecSweep)
\* ---------------------------------------------------------------------------

\* every record handed to the sender in a run was sent
AllSent(outcomes) == \A i \in DOMAIN outcomes : outcomes[i].ok

\* the latest run of the sweep directly followed another run
SweptTwice == last.op = "sweep" /\ IsSome(last.previous)

C33_EventsNeverChange ==
    [][\A id \in DOMAIN critical_processor.events :
           /\ id \in DOMAIN critical_processor'.events
           /\ critical_processor'.events[id] = critical_processor.events[id]]_vars

\* an event detected earlier is stored, one of its records has been sent and
\* another call has just acknowledged it
C33_Witness ==
    /\ last.op = "acknowledge_critical_value"
    /\ last.result.ok
    /\ last.event_id \in DOMAIN critical_processor.events
    /\ critical_processor.events[last.event_id].detected_at < clock
    /\ \E i \in DOMAIN last.before[last.event_id] :
           last.before[last.event_id][i].status = "Sent"

\* ---------------------------------------------------------------------------
\* C34 (SpecWL)
\* ---------------------------------------------------------------------------

\* C34: update_work_item_status of an existing item to Completed or Rejected
\* takes the id out of the index of the item's reviewer and out of no other
\* list; the item stays in the item table and in its study's index, and
\* get_work_item returns it with the same reviewer and the new status.  Any
\* other status leaves every index as it was.
C34_ClosingKeepsTheItem ==
    [][(/\ last'.op = "update_work_item_status"
        /\ calls' # calls
        /\ last'.id \in DOMAIN worklist_manager.work_items) =>
          LET id == last'.id
              item == worklist_manager.work_items[id]
              closing == last'.status \in {"Completed", "Rejected"}
          IN  /\ last'.result = Ok(Unit)
              /\ get_work_item(worklist_manager', id) = Some([item EXCEPT !.status = last'.status])
              /\ DOMAIN worklist_manager'.work_items = DOMAIN worklist_manager.work_items
              /\ worklist_manager'.study_work_items = worklist_manager.study_work_items
              /\ id \in Range(worklist_manager'.study_work_items[item.study_id])
              /\ DOMAIN worklist_manager'.radiologist_worklists =
                     DOMAIN worklist_manager.radiologist_worklists
              /\ \A r \in DOMAIN worklist_manager.radiologist_worklists :
                     IF closing /\ item.radiologist_id = Some(r)
                     THEN /\ id \notin Range(worklist_manager'.radiologist_worklists[r])
                          /\ worklist_manager'.radiologist_worklists[r] =
                                 retain_ne(worklist_manager.radiologist_worklists[r], id)
                     ELSE worklist_manager'.radiologist_worklists[r] =
                              worklist_manager.radiologist_worklists[r]]_vars

\* an item of reviewer r2 has just been completed: it is stored as Completed
\* with its reviewer, is in its study's index and is out of r2's index, which
\* still holds another item
C34_Witness ==
    /\ last.op = "update_work_item_status" /\ last.result.ok /\ last.status = "Completed"
    /\ last.id \in DOMAIN worklist_manager.work_items
    /\ worklist_manager.work_items[last.id].radiologist_id = Some("r2")
    /\ worklist_manager.work_items[last.id].status = "Completed"
    /\ last.id \in Range(worklist_manager.study_work_items[worklist_manager.work_items[last.id].study_id])
    /\ last.id \notin Range(worklist_manager.radiologist_worklists["r2"])
    /\ worklist_manager.radiologist_worklists["r2"] # <<>>

\* ---------------------------------------------------------------------------
\* C35 (SpecEngine)
\* ---------------------------------------------------------------------------

\* the Pending or InProgress work items assigned to a reviewer
ActiveItemsOf(radiologist_id) ==
    {id \in DOMAIN worklist_manager.work_items :
        /\ worklist_manager.work_items[id].radiologist_id = Some(radiologist_id)
        /\ worklist_manager.work_items[id].status \in {"Pending", "InProgress"}}

\* C35: after any sequence of process_new_study, update_study_status,
\* assign_work_item and update_work_item_status calls, each reviewer's
\* workload counter is the number of Pending or InProgress work items
\* assigned to that reviewer
C35_WorkloadCountsActiveItems ==
    \A radiologist_id \in Reviewers :
        get_workload(routing_engine, radiologist_id) = Cardinality(ActiveItemsOf(radiologist_id))

\* ---------------------------------------------------------------------------
\* C36 (SpecEngine)
\* ---------------------------------------------------------------------------

\* C36: the engine's assign_work_item that moves a Pending or InProgress
\* item from its reviewer to a different one takes one off the old
\* reviewer's workload, adds one to the new reviewer's and leaves the other
\* workloads alone; when the item does not exist it returns NotFound and
\* changes no workload
C36_ReassignmentMovesOneUnit ==
    last.op = "assign_work_item" =>
        LET before == last.before.worklist_manager.work_items
        IN  IF last.id \in DOMAIN before
            THEN (/\ before[last.id].status \in {"Pending", "InProgress"}
                  /\ IsSome(before[last.id].radiologist_id)
                  /\ before[last.id].radiologist_id # Some(last.to)) =>
                     \A radiologist_id \in Reviewers :
                         get_workload(routing_engine, radiologist_id) =
                             get_workload(last.before.routing_engine, radiologist_id)
                             + (IF radiologist_id = last.to THEN 1 ELSE 0)
                             - (IF before[last.id].radiologist_id = Some(radiologist_id)
                                THEN 1 ELSE 0)
            ELSE /\ last.result = Err("NotFound")
                 /\ \A radiologist_id \in Reviewers :
                        get_workload(routing_engine, radiologist_id) =
                            get_workload(last.before.routing_engine, radiologist_id)

\* ---------------------------------------------------------------------------
\* C37 (SpecWL)
\* ---------------------------------------------------------------------------

\* C37: after any sequence of create_work_item, update_work_item_status,
\* assign_work_item and remove_work_item calls, an id is in the index of
\* reviewer R exactly when the item exists, its reviewer is R and its status
\* is neither Completed nor Rejected
C37_IndexHoldsOpenItems ==
    \A radiologist_id \in Radiologists, id \in ItemIds :
        (/\ radiologist_id \in DOMAIN worklist_manager.radiologist_worklists
         /\ id \in Range(worklist_manager.radiologist_worklists[radiologist_id]))
        <=> (/\ id \in DOMAIN worklist_manager.work_items
             /\ worklist_manager.work_items[id].radiologist_id = Some(radiologist_id)
             /\ worklist_manager.work_items[id].status \notin {"Completed", "Rejected"})

\* ---------------------------------------------------------------------------
\* C38 (SpecEsc)
\* ---------------------------------------------------------------------------

\* C38: once an event has been acknowledged it stays so: in every later
\* step, drains of records queued before the acknowledgement included, the
\* event is not among get_unacknowledged_events and should_escalate is false
\* for the condition NotAcknowledged on its records
C38_AcknowledgedEventStaysOut ==
    [][\A id \in DOMAIN critical_processor.events :
           id \notin get_unacknowledged_events(critical_processor) =>
               /\ id \notin get_unacknowledged_events(critical_processor')
               /\ ~ should_escalate(critical_processor'.notifications[id], "NotAcknowledged")]_vars

\* ---------------------------------------------------------------------------
\* C39 (SpecLife)
\* ---------------------------------------------------------------------------

\* C39: a study that begins as Scheduled never has a status twice and makes
\* at most 4 transitions; each status it takes after Scheduled is the target
\* the table gives for the status before and some event; and can_transition
\* is true for a pair exactly when transition succeeds for it
C39_LifecycleAcyclic ==
    /\ \A s \in Studies :
           LET path == last.path[s]
           IN  /\ \A i, j \in DOMAIN path : path[i] = path[j] => i = j
               /\ Len(path) - 1 <= 4
               /\ path[Len(path)] = study_status[s]
               /\ \A i \in 2 .. Len(path) :
                      \E e \in StudyEvent : TabulatedTarget(path[i - 1], e) = Some(path[i])
    /\ last.op = "transition" =>
           /\ last.can <=> last.result.ok
           /\ last.result.ok => TabulatedTarget(last.from, last.event) = Some(last.result.value)

\* a study has gone from Scheduled to Final in 4 transitions, another has
\* been canceled while in progress, and an event has just been refused
C39_Witness ==
    /\ last.op = "transition" /\ ~ last.can /\ ~ last.result.ok
    /\ \E s \in Studies :
           last.path[s] = <<"Scheduled", "InProgress", "Completed", "Preliminary", "Final">>
    /\ \E s \in Studies : last.path[s] = <<"Scheduled", "InProgress", "Canceled">>

====
